---- MODULE Spec2Model ----
(***************************************************************************)
(* The in-memory stateful collection engine of symulate-sdk: DataStore     *)
(* (dataStore.ts), the collection facade (defineCollection.ts), the faker  *)
(* value generator and the response builder.  Asynchronous methods are     *)
(* cut at their await points: one action is one synchronous segment of     *)
(* one logical task, and tasks interleave only between segments.           *)
(*                                                                         *)
(* Values are integers: an id, a timestamp and a number are all naturals,  *)
(* 0 is the falsy value of every field ("" / 0 in the source), and an      *)
(* absent (undefined) field is a name outside the record's DOMAIN.         *)
(***************************************************************************)
EXTENDS Integers, Sequences, FiniteSets, TLC

\* ------------------------------------------------------------------ bounds
MaxTasks == 2          \* logical tasks (one store operation each)
MaxSeed  == 1          \* largest seedCount a collection is defined with
MaxClock == 2          \* last instant of the millisecond clock

\* ------------------------------------------------------- program constants
DefaultPage  == 1      \* options.page || 1
DefaultLimit == 20     \* options.limit || 20

Tasks == 1..MaxTasks
Collections == {"users", "posts"}
Modes == {"memory", "local"}
Ops == {"list", "get", "create", "update", "replace", "delete", "clear"}

\* Ids a caller may pass that no generator produces, and the numbers
\* faker.number.int draws.
CallerIds    == {90}
FakerNumbers == {10}

VARIABLES
  registry,           \* collectionRegistry: registered names, in registration order
  seedCount,          \* DataStore.seedCount, per collection
  data,               \* DataStore.data: insertion-ordered Map id -> record
  initialized,        \* DataStore.initialized
  isInitializingAll,  \* DataStore.isInitializingAll (static)
  mode,               \* getConfig().collections.persistence.mode
  config,             \* the rest of the configuration, global and per collection
  disk,               \* the persisted record list of each collection (local mode)
  now,                \* Date.now()
  nextId,             \* source of the random ids (faker uuid, generateId)
  seedRuns,           \* number of generateSeedData calls made on each store
  tk,                 \* the logical tasks: position and locals of each
  out                 \* what the step just taken returned to its caller, if anything

vars == <<registry, seedCount, data, initialized, isInitializingAll, mode, config,
          disk, now, nextId, seedRuns, tk, out>>

\* ----------------------------------------------------------------- records
EmptyRec == [f \in {} |-> 0]

Has(r, f) == f \in DOMAIN r

\* JS truthiness of r[f]: absent (undefined) and 0 are falsy
Truthy(r, f) == Has(r, f) /\ r[f] # 0

\* object spread { ...a, ...b }
Spread(a, b) ==
  [f \in DOMAIN a \cup DOMAIN b |-> IF f \in DOMAIN b THEN b[f] ELSE a[f]]

\* ------------------------------------------------------ Map<string, T>
\* A JS Map iterates in insertion order; set() on a present key keeps its place.
MapKeys(m) == {m[i].k : i \in 1..Len(m)}

MapHas(m, k) == k \in MapKeys(m)

MapIndex(m, k) == CHOOSE i \in 1..Len(m) : m[i].k = k

MapGet(m, k) == m[MapIndex(m, k)].v

MapSet(m, k, v) ==
  IF MapHas(m, k)
  THEN [m EXCEPT ![MapIndex(m, k)] = [k |-> k, v |-> v]]
  ELSE Append(m, [k |-> k, v |-> v])

MapDelete(m, k) == SelectSeq(m, LAMBDA e : e.k # k)

MapValues(m) == [i \in 1..Len(m) |-> m[i].v]

MapKeyList(m) == [i \in 1..Len(m) |-> m[i].k]

RECURSIVE MapSetAll(_, _)
\* items.forEach(item => data.set(item.id, item))
MapSetAll(m, items) ==
  IF items = <<>> THEN m
  ELSE MapSetAll(MapSet(m, Head(items)["id"], Head(items)), Tail(items))

SeqToSet(s) == {s[i] : i \in 1..Len(s)}

\* ------------------------------------------------ collection configuration
\* The two collection definitions the model works with:
\*   users: { id: m.uuid(), price: m.number() }, relations { posts: hasMany }
\*   posts: { id: m.uuid(), userId: m.uuid(), price: m.number() },
\*          relations { user: belongsTo users via userId }
SchemaShape(c) ==
  IF c = "posts"
  THEN <<[key |-> "id", type |-> "uuid"], [key |-> "userId", type |-> "uuid"],
         [key |-> "price", type |-> "number"]>>
  ELSE <<[key |-> "id", type |-> "uuid"], [key |-> "price", type |-> "number"]>>

Relations(c) ==
  IF c = "posts"
  THEN <<[name |-> "user", type |-> "belongsTo", collection |-> "users",
          foreignKey |-> "userId"]>>
  ELSE <<[name |-> "posts", type |-> "hasMany", collection |-> "posts",
          foreignKey |-> "userId"]>>

BelongsTo(c) == {Relations(c)[i] : i \in {j \in 1..Len(Relations(c)) :
                                          Relations(c)[j].type = "belongsTo"}}

\* ------------------------------------------------------- seed order
\* getCollectionSeedOrder: topological order over the belongsTo edges, parents
\* first, ties in registration order; on a cycle the rest follows in
\* declaration order.
Parents(c, reg) == ({r.collection : r \in BelongsTo(c)} \cap SeqToSet(reg)) \ {c}

RECURSIVE TopoOrder(_, _, _)
TopoOrder(placed, remaining, reg) ==
  IF remaining = <<>> THEN placed
  ELSE LET ready == {i \in 1..Len(remaining) :
                       Parents(remaining[i], reg) \subseteq SeqToSet(placed)}
       IN IF ready = {} THEN placed \o remaining
          ELSE LET i == CHOOSE j \in ready : \A k \in ready : j <= k
               IN TopoOrder(Append(placed, remaining[i]),
                            SelectSeq(remaining, LAMBDA x : x # remaining[i]), reg)

getCollectionSeedOrder(reg) == TopoOrder(<<>>, reg, reg)

\* ------------------------------------------------------- value generator
\* generateSingleValue on an object schema.  The k-th uuid of an item that is
\* not drawn from a pool is the fresh value base + k - 1; the slot after the
\* schema's keys is the one generateId() would use.
Slots(c) == Len(SchemaShape(c)) + 1

FieldValues(c, i, pools, base) ==
  LET fs == SchemaShape(c)[i] IN
  IF fs.type = "uuid"
  THEN IF fs.key \in DOMAIN pools /\ Len(pools[fs.key]) > 0
       THEN SeqToSet(pools[fs.key])
       ELSE {base + i - 1}
  ELSE FakerNumbers

\* the first uuid faker draws after faker.seed(seed)
SeededBase(seed) == 60 + seed

\* with config.fakerSeed set (fakerSeed = <<seed>>, <<>> when undefined) every
\* call reseeds faker first, and draws the values that follow that seed
generateWithFaker(c, pools, base) ==
  LET n      == Len(SchemaShape(c))
      keys   == {SchemaShape(c)[i].key : i \in 1..n}
      idx(f) == CHOOSE i \in 1..n : SchemaShape(c)[i].key = f
      from   == IF config.fakerSeed # <<>> THEN SeededBase(config.fakerSeed[1]) ELSE base
      all    == UNION {FieldValues(c, i, pools, from) : i \in 1..n}
  IN {r \in [keys -> all] : \A f \in keys : r[f] \in FieldValues(c, idx(f), pools, from)}

\* the wrapper of generateSeedData / insert:
\*   { ...item, id: item.id || generateId(), createdAt: item.createdAt || now, updatedAt: now }
StampedFields == {"id", "createdAt", "updatedAt"}

Stamp(item, genId, time) ==
  Spread(item, [f \in StampedFields |->
                  IF f = "id" THEN (IF Truthy(item, "id") THEN item["id"] ELSE genId)
                  ELSE IF f = "createdAt"
                       THEN (IF Truthy(item, "createdAt") THEN item["createdAt"] ELSE time)
                       ELSE time])

RECURSIVE generateSeedData(_, _, _, _, _)
\* the set of seed lists the faker branch can return
generateSeedData(c, pools, n, base, time) ==
  IF n = 0 THEN {<<>>}
  ELSE {<<Stamp(item, base + Slots(c) - 1, time)>> \o rest :
          item \in generateWithFaker(c, pools, base),
          rest \in generateSeedData(c, pools, n - 1, base + Slots(c), time)}

\* fkValuePools of initializeAllCollections: foreignKey -> ids of the target,
\* for the belongsTo relations whose target has a non-empty entry in availableIds
FkValuePools(c, avail) ==
  LET rels == {r \in BelongsTo(c) :
                 r.collection \in DOMAIN avail /\ Len(avail[r.collection]) > 0}
  IN [f \in {r.foreignKey : r \in rels} |->
        avail[(CHOOSE r \in rels : r.foreignKey = f).collection]]

\* ------------------------------------------------------------- query
\* A filter is a list of entries [field, value]; a value is a literal
\* [lit |-> v], the literal null (NullLiteral) or an operator object
\* [ops |-> f], f a function from operator names to operands (a set for
\* $in / $nin).
NullLiteral == [null |-> TRUE]

OperatorOrder == <<"$eq", "$ne", "$gt", "$gte", "$lt", "$lte", "$in", "$nin">>

\* one `if (value.$op !== undefined) return ...` line of applyFilters;
\* an absent itemValue is undefined: it equals nothing and compares false
OperatorHolds(item, f, opr, v) ==
  CASE opr = "$eq"  -> Has(item, f) /\ item[f] = v
    [] opr = "$ne"  -> ~(Has(item, f) /\ item[f] = v)
    [] opr = "$gt"  -> Has(item, f) /\ item[f] > v
    [] opr = "$gte" -> Has(item, f) /\ item[f] >= v
    [] opr = "$lt"  -> Has(item, f) /\ item[f] < v
    [] opr = "$lte" -> Has(item, f) /\ item[f] <= v
    [] opr = "$in"  -> Has(item, f) /\ item[f] \in v
    [] opr = "$nin" -> ~(Has(item, f) /\ item[f] \in v)

\* `typeof value !== 'object'` sends a literal to the strict comparison; null
\* has typeof 'object', so reading value.$eq of it throws a TypeError
EntryThrows(e) == e.value = NullLiteral

\* the first operator of the fixed order that the object defines decides
EntryHolds(item, e) ==
  IF "lit" \in DOMAIN e.value
  THEN Has(item, e.field) /\ item[e.field] = e.value.lit
  ELSE LET present == {i \in 1..Len(OperatorOrder) :
                         OperatorOrder[i] \in DOMAIN e.value.ops}
       IN IF present = {} THEN TRUE
          ELSE LET i == CHOOSE j \in present : \A k \in present : j <= k
               IN OperatorHolds(item, e.field, OperatorOrder[i],
                                e.value.ops[OperatorOrder[i]])

\* Object.entries(filter).every(...) on one item stops at the first entry
\* that fails: it throws when it reaches a null literal before any failure
ItemThrows(item, filter) ==
  \E i \in 1..Len(filter) :
    /\ EntryThrows(filter[i])
    /\ \A j \in 1..(i - 1) : EntryHolds(item, filter[j])

FilterThrows(items, filter) ==
  \E k \in 1..Len(items) : ItemThrows(items[k], filter)

\* the items that pass every entry (of a filter that does not throw on them)
applyFilters(items, filter) ==
  SelectSeq(items, LAMBDA item : \A i \in 1..Len(filter) : EntryHolds(item, filter[i]))

\* the comparator of applySorting: 0 on identical values (two absent values
\* included), else 1 when aValue > bValue holds and -1 when it does not
\* (it never does against an absent value), negated unless sortOrder is 'asc'
Comparator(a, b, sortBy, sortOrder) ==
  IF Has(a, sortBy) = Has(b, sortBy) /\ (Has(a, sortBy) => a[sortBy] = b[sortBy])
  THEN 0
  ELSE LET comparison == IF Has(a, sortBy) /\ Has(b, sortBy) /\ a[sortBy] > b[sortBy]
                         THEN 1 ELSE -1
       IN IF sortOrder = "asc" THEN comparison ELSE 0 - comparison

\* the comparator orders the items consistently: cmp(a, b) = -cmp(b, a)
Consistent(items, sortBy, sortOrder) ==
  \A i, j \in 1..Len(items) :
    Comparator(items[i], items[j], sortBy, sortOrder)
      = 0 - Comparator(items[j], items[i], sortBy, sortOrder)

\* x put after the last element of a sorted list that does not come after it
InsertSorted(sorted, x, sortBy, sortOrder) ==
  LET before == {j \in 1..Len(sorted) : Comparator(sorted[j], x, sortBy, sortOrder) <= 0}
      at     == IF before = {} THEN 0 ELSE CHOOSE j \in before : \A k \in before : k <= j
  IN SubSeq(sorted, 1, at) \o <<x>> \o SubSeq(sorted, at + 1, Len(sorted))

RECURSIVE StableSort(_, _, _)
\* Array.prototype.sort with a consistent comparator: a stable sort
StableSort(items, sortBy, sortOrder) ==
  IF items = <<>> THEN <<>>
  ELSE InsertSorted(StableSort(SubSeq(items, 1, Len(items) - 1), sortBy, sortOrder),
                    items[Len(items)], sortBy, sortOrder)

Reorderings(items) ==
  {[i \in 1..Len(items) |-> items[p[i]]] : p \in Permutations(1..Len(items))}

\* a sort that orders ascending whatever sortOrder says
applySortingAscending(items, sortBy, sortOrder) ==
  IF Consistent(items, sortBy, "asc")
  THEN {StableSort(items, sortBy, "asc")}
  ELSE Reorderings(items)

\* items.sort(comparator): the orders the call may leave the items in. With
\* an inconsistent comparator the order is implementation-defined.
applySorting(items, sortBy, sortOrder) ==
  IF Consistent(items, sortBy, sortOrder)
  THEN {StableSort(items, sortBy, sortOrder)}
  ELSE Reorderings(items)

Min2(a, b) == IF a < b THEN a ELSE b

\* Array.prototype.slice(start, end), clamped
Slice(s, start, end) ==
  LET lo == Min2(start, Len(s))
      hi == Min2(end, Len(s))
  IN IF hi <= lo THEN <<>> ELSE [i \in 1..(hi - lo) |-> s[lo + i]]

\* a pagination whose first page starts one page into the items
PaginateFromSecond(items, options) ==
  LET page  == IF Truthy(options, "page") THEN options["page"] ELSE DefaultPage
      limit == IF Truthy(options, "limit") THEN options["limit"] ELSE DefaultLimit
      total == Len(items)
  IN [data |-> Slice(items, page * limit, page * limit + limit),
      pagination |-> [page |-> page, limit |-> limit, total |-> total,
                      totalPages |-> (total + limit - 1) \div limit]]

\* the pagination part of DataStore.query, on the filtered and sorted items
Paginate(items, options) ==
  LET page  == IF Truthy(options, "page") THEN options["page"] ELSE DefaultPage
      limit == IF Truthy(options, "limit") THEN options["limit"] ELSE DefaultLimit
      total == Len(items)
      totalPages == (total + limit - 1) \div limit
      startIndex == (page - 1) * limit
  IN [data |-> Slice(items, startIndex, startIndex + limit),
      pagination |-> [page |-> page, limit |-> limit, total |-> total,
                      totalPages |-> totalPages]]

\* DataStore.query without a response schema, for options without sortBy and
\* a filter that does not throw
query(m, options) ==
  LET all   == MapValues(m)
      items == IF Has(options, "filter") THEN applyFilters(all, options["filter"]) ELSE all
  IN Paginate(items, options)

TypeError == [kind |-> "error", message |-> "TypeError"]

\* DataStore.query without a response schema: what the call may resolve to or
\* be rejected with
queryOutcomes(m, options) ==
  LET all == MapValues(m)
  IN IF Has(options, "filter") /\ FilterThrows(all, options["filter"])
     THEN {TypeError}
     ELSE LET items == IF Has(options, "filter")
                       THEN applyFilters(all, options["filter"]) ELSE all
              sortOrder == IF Has(options, "sortOrder") THEN options["sortOrder"]
                           ELSE "asc"
          IN IF Has(options, "sortBy")
             THEN {Paginate(s, options) :
                     s \in applySorting(items, options["sortBy"], sortOrder)}
             ELSE {Paginate(items, options)}

\* --------------------------------------------------- response envelope
RECURSIVE Gcd(_, _)
Gcd(a, b) == IF b = 0 THEN a ELSE Gcd(b, a % b)

\* the quotient a / b of two naturals, b > 0, as a reduced fraction
Quotient(a, b) == LET g == Gcd(a, b) IN <<a \div g, b \div g>>

RECURSIVE SumField(_, _)
\* data.reduce((acc, item) => acc + (Number(item[f]) || 0), 0)
SumField(items, f) ==
  IF items = <<>> THEN 0
  ELSE (IF Has(Head(items), f) THEN Head(items)[f] ELSE 0) + SumField(Tail(items), f)

NumericValues(items, f) == {items[i][f] : i \in {j \in 1..Len(items) : Has(items[j], f)}}

calculateMetaField(schemaType, items, pagination) ==
  CASE schemaType = "total" ->
         IF pagination.total # 0 THEN pagination.total ELSE Len(items)
    [] schemaType = "page" ->
         IF pagination.page # 0 THEN pagination.page ELSE 1
    [] schemaType = "limit" ->
         IF pagination.limit # 0 THEN pagination.limit ELSE Len(items)
    [] schemaType = "totalPages" ->
         IF pagination.totalPages # 0 THEN pagination.totalPages ELSE 1
    [] schemaType = "avg:price" ->
         IF Len(items) > 0 THEN Quotient(SumField(items, "price"), Len(items))
         ELSE Quotient(0, 1)
    [] schemaType = "sum:price" -> SumField(items, "price")
    [] schemaType = "min:price" ->
         LET vs == NumericValues(items, "price")
         IN IF vs # {} THEN CHOOSE v \in vs : \A w \in vs : v <= w ELSE 0
    [] schemaType = "max:price" ->
         LET vs == NumericValues(items, "price")
         IN IF vs # {} THEN CHOOSE v \in vs : \A w \in vs : v >= w ELSE 0
    [] schemaType = "count:price:10" ->
         Len(SelectSeq(items, LAMBDA item : Has(item, "price") /\ item["price"] = 10))

MetaTypes == {"total", "page", "limit", "totalPages", "avg:price", "sum:price",
              "min:price", "max:price", "count:price:10"}

\* buildResponseFromSchema for the envelope schema
\*   { items: m.array(item), <one field per meta type> }
\* sourceData is result.data, and every field is built from it
buildResponseFromSchema(result) ==
  LET sourceData == result.data
  IN [items |-> sourceData,
      meta  |-> [ty \in MetaTypes |->
                   calculateMetaField(ty, sourceData, result.pagination)]]

\* ------------------------------------------------------ store operations
\* Each returns the new Map, the value the method resolves to, and whether a
\* persistence call is issued.
Null == [kind |-> "null"]
Void == [kind |-> "void"]
None == [kind |-> "none"]
Item(r) == [kind |-> "item", item |-> r]
Bool(b) == [kind |-> "bool", b |-> b]

findById(m, id) == IF MapHas(m, id) THEN Item(MapGet(m, id)) ELSE Null

\* variants of the store methods and of the facade that the claims must tell
\* from the code: an insert whose generated id is always the same
insertFixedId(m, item, genId, time) ==
  LET newItem == Stamp(item, 1, time)
  IN [data |-> MapSet(m, newItem["id"], newItem), ret |-> Item(newItem), persist |-> TRUE]

\* an insert that returns the record without storing it
insertUnstored(m, item, genId, time) ==
  [data |-> m, ret |-> Item(Stamp(item, genId, time)), persist |-> TRUE]

insert(m, item, genId, time) ==
  LET newItem == Stamp(item, genId, time)
  IN [data |-> MapSet(m, newItem["id"], newItem), ret |-> Item(newItem), persist |-> TRUE]

\* the trailing `id, createdAt: existing.createdAt, updatedAt: now` of update / replace
ForcedFields == {"id", "updatedAt"}

\* a trailer that leaves the id to the payload
PreserveStamps(existing, id, time) ==
  [f \in {"updatedAt"} \cup ({"createdAt"} \cap DOMAIN existing) |->
     IF f = "createdAt" THEN existing["createdAt"] ELSE time]

Preserve(existing, id, time) ==
  [f \in ForcedFields \cup ({"createdAt"} \cap DOMAIN existing) |->
     IF f = "id" THEN id ELSE IF f = "createdAt" THEN existing["createdAt"] ELSE time]

Drop(r, keys) == [f \in DOMAIN r \ keys |-> r[f]]

\* an update that lets the partial override id and createdAt
updateOverridable(m, id, updates, time) ==
  IF ~MapHas(m, id) THEN [data |-> m, ret |-> Null, persist |-> FALSE]
  ELSE LET updated == Spread(Spread(MapGet(m, id), updates), ("updatedAt" :> time))
       IN [data |-> MapSet(m, id, updated), ret |-> Item(updated), persist |-> TRUE]

update(m, id, updates, time) ==
  IF ~MapHas(m, id) THEN [data |-> m, ret |-> Null, persist |-> FALSE]
  ELSE LET existing == MapGet(m, id)
           merged   == Spread(existing, updates)
           updated  == Spread(IF Has(existing, "createdAt") THEN merged
                              ELSE Drop(merged, {"createdAt"}),
                              Preserve(existing, id, time))
       IN [data |-> MapSet(m, id, updated), ret |-> Item(updated), persist |-> TRUE]

\* a replace that merges the payload onto the existing record
replaceMerging(m, id, item, time) ==
  IF ~MapHas(m, id) THEN [data |-> m, ret |-> Null, persist |-> FALSE]
  ELSE LET existing == MapGet(m, id)
           replaced == Spread(Spread(existing, item),
                              ("id" :> id @@ "createdAt" :> existing["createdAt"]
                                 @@ "updatedAt" :> time))
       IN [data |-> MapSet(m, id, replaced), ret |-> Item(replaced), persist |-> TRUE]

replace(m, id, item, time) ==
  IF ~MapHas(m, id) THEN [data |-> m, ret |-> Null, persist |-> FALSE]
  ELSE LET existing == MapGet(m, id)
           replaced == Spread(IF Has(existing, "createdAt") THEN item
                              ELSE Drop(item, {"createdAt"}),
                              Preserve(existing, id, time))
       IN [data |-> MapSet(m, id, replaced), ret |-> Item(replaced), persist |-> TRUE]

\* a delete that reports a removal whether or not the id was there
deleteReportingTrue(m, id) ==
  [data |-> SelectSeq(m, LAMBDA e : e.k # id), ret |-> Bool(TRUE), persist |-> TRUE]

delete(m, id) ==
  LET existed == MapHas(m, id)
  IN [data |-> MapDelete(m, id), ret |-> Bool(existed), persist |-> existed]

Number(n) == [kind |-> "number", n |-> n]
Array(items) == [kind |-> "array", items |-> items]

exists(m, id) == Bool(MapHas(m, id))

\* a count that ignores its filter
countAll(m, options) == Number(Len(m))

\* count(filter): data.size without a filter, else the length of applyFilters
\* (which throws on a null literal)
count(m, options) ==
  IF ~Has(options, "filter") THEN Number(Len(m))
  ELSE IF FilterThrows(MapValues(m), options["filter"]) THEN TypeError
       ELSE Number(Len(applyFilters(MapValues(m), options["filter"])))

toArray(m) == Array(MapValues(m))

\* a clear that leaves the records in place
clearKept(m) == [data |-> m, ret |-> Void, persist |-> TRUE]

clear(m) == [data |-> <<>>, ret |-> Void, persist |-> TRUE]

\* ------------------------------------------------------ response schemas
\* A schema node is a record with its schemaType; an object node has a shape,
\* the list of its fields [key, schema]. A collection is configured with a
\* responseSchema, and its list operation may have one of its own.
NoSchema == [schemaType |-> "none"]

ObjectSchema(shape) == [schemaType |-> "object", shape |-> shape]

Field(key, schemaType) == [key |-> key, schema |-> [schemaType |-> schemaType]]

\* { items: m.array(item), <one field per meta type> }
EnvelopeSchema ==
  ObjectSchema(<<Field("items", "array"), Field("total", "collectionsMeta.total"),
                 Field("page", "collectionsMeta.page"),
                 Field("limit", "collectionsMeta.limit"),
                 Field("totalPages", "collectionsMeta.totalPages"),
                 Field("avg", "collectionsMeta.avg"), Field("sum", "collectionsMeta.sum"),
                 Field("min", "collectionsMeta.min"), Field("max", "collectionsMeta.max"),
                 Field("count", "collectionsMeta.count")>>)

MetaSchemaTypes ==
  {"collectionsMeta.total", "collectionsMeta.page", "collectionsMeta.limit",
   "collectionsMeta.totalPages", "collectionsMeta.avg", "collectionsMeta.sum",
   "collectionsMeta.min", "collectionsMeta.max", "collectionsMeta.count"}

\* schemaType?.startsWith('collectionsMeta.') || schemaType === 'array', on
\* some field of the shape
isResponseEnvelope(schema) ==
  \E i \in 1..Len(schema.shape) :
    \/ schema.shape[i].schema.schemaType \in MetaSchemaTypes
    \/ schema.shape[i].schema.schemaType = "array"

\* m.join(relation, field)
JoinField(key, relation, field) ==
  [key |-> key, schema |-> [schemaType |-> "join", relation |-> relation, field |-> field]]

\* ------------------------------------------------- operations config
\* A value of config.operations[op]: undefined, a boolean, null, or an
\* OperationConfig object (fields: its own properties; enabled, when present,
\* is 1 for true and 0 for false).
Undefined == [t |-> "undefined"]

Boolean(b) == [t |-> "boolean", b |-> b]

NullValue == [t |-> "null"]

Object(fields) == [t |-> "object", fields |-> fields]

OperationNames == {"list", "get", "create", "update", "replace", "delete"}

\* config.operations when the collection's config has none
NoOperations == [o \in OperationNames |-> Undefined]

\* normalizeOperations(ops); spreading null adds no property
normalizeOperations(ops) ==
  [key \in OperationNames |->
     LET value == ops[key]
     IN IF value = Undefined THEN Boolean(TRUE)
        ELSE IF value.t = "boolean" THEN value
             ELSE Object(Spread(("enabled" :> 1),
                                IF value.t = "object" THEN value.fields ELSE EmptyRec))]

\* an isOperationEnabled for which every OperationConfig object is enabled
isOperationEnabledObject(opConfig) ==
  opConfig # Boolean(FALSE)

isOperationEnabled(opConfig) ==
  IF opConfig = Undefined \/ opConfig = Boolean(TRUE) THEN TRUE
  ELSE IF opConfig = Boolean(FALSE) THEN FALSE
       ELSE IF opConfig.t = "object"
            THEN ~(Has(opConfig.fields, "enabled") /\ opConfig.fields["enabled"] = 0)
            ELSE TRUE

\* enabledOps of defineCollection, as the set of the operations enabled
enabledOps(operations) ==
  {o \in OperationNames : isOperationEnabled(normalizeOperations(operations)[o])}

\* the keys of the endpoints map, and the operations the collection object
\* has a method for
Endpoints(operations) == {op \in OperationNames : op \in enabledOps(operations)}

Methods(operations) == {op \in OperationNames : op \in enabledOps(operations)}

\* hooks: the behaviour of the before-hooks (beforeCreate, beforeUpdate,
\* beforeDelete) and of the after-hooks, "absent" when none is configured
NoHooks == [before |-> "absent", after |-> "absent"]

\* the list operation's envelope, no responseSchema on the collections, the
\* faker generator without a seed, and an environment in which no persistence call and no
\* AI generation fails (faults: the kinds of call that may fail); no hooks and
\* no configured errors on the operations
DefaultConfig ==
  [listSchema |-> EnvelopeSchema, responseSchema |-> [c \in Collections |-> NoSchema],
   generateMode |-> "faker", fakerSeed |-> <<>>, faults |-> {},
   hooks |-> NoHooks, errors |-> <<>>, operations |-> NoOperations]

\* operationConfig?.responseSchema || normalizedConfig.responseSchema
ResponseSchemaOf(o, c) ==
  IF o = "list" /\ config.listSchema # NoSchema THEN config.listSchema
  ELSE config.responseSchema[c]

\* a projection that keeps every field of the item the schema has no field for
projectResponseKeepingRest(item, responseSchema) ==
  item

\* projectResponse on one item
projectResponse(item, responseSchema) ==
  IF responseSchema.schemaType # "object" \/ Len(responseSchema.shape) = 0
  THEN item
  ELSE LET fields == {responseSchema.shape[i].key : i \in 1..Len(responseSchema.shape)}
       IN [f \in fields \cap DOMAIN item |-> item[f]]

\* the join fields of an object schema that name a belongsTo relation of
\* collection c, each with that relation
JoinsOf(c, schema) ==
  LET fields == {schema.shape[i] : i \in {j \in 1..Len(schema.shape) :
                                          schema.shape[j].schema.schemaType = "join"}}
  IN {j \in {[key |-> fld.key, field |-> fld.schema.field,
              relation |-> fld.schema.relation, rel |-> r] :
               fld \in fields, r \in BelongsTo(c)} : j.rel.name = j.relation}

\* the record a join points to from an item, as a set: empty when the item
\* has no foreign key or the related store no record of that id
Related(item, rel, stores) ==
  IF Has(item, rel.foreignKey) /\ MapHas(stores[rel.collection], item[rel.foreignKey])
  THEN {MapGet(stores[rel.collection], item[rel.foreignKey])}
  ELSE {}

\* resolveJoins on one item against the stores as they are now: a join field
\* gets the named field of the related record, and stays absent when there is
\* no such record or it has no such field
resolveJoins(c, item, schema, stores) ==
  IF schema.schemaType # "object" THEN item
  ELSE LET joins == {j \in JoinsOf(c, schema) :
                       \E r \in Related(item, j.rel, stores) : Has(r, j.field)}
       IN Spread(item,
                 [k \in {j.key : j \in joins} |->
                    LET j == CHOOSE q \in joins : q.key = k
                        r == CHOOSE q \in Related(item, j.rel, stores) : TRUE
                    IN r[j.field]])

\* ------------------------------------------------------ collection facade
\* What the collection's method settles with, given what the store method
\* resolved to (memory / local persistence, no configured errors, delays or
\* hooks).
NotFound(c, id) == [kind |-> "error", message |-> "not found", collection |-> c, id |-> id]

\* a shaping that leaves the join fields unresolved
RespondUnjoined(o, c, sret) ==
  LET schema == ResponseSchemaOf(o, c)
      shaped(item) == projectResponse(item, schema)
  IN IF o = "list"
     THEN IF sret = TypeError THEN sret
          ELSE IF schema.schemaType = "object" /\ isResponseEnvelope(schema)
               THEN [kind |-> "list", response |-> buildResponseFromSchema(sret)]
               ELSE [kind |-> "list",
                     response |-> [sret EXCEPT !.data =
                                     [i \in 1..Len(sret.data) |-> shaped(sret.data[i])]]]
     ELSE IF sret.kind = "item" /\ schema # NoSchema THEN Item(shaped(sret.item))
          ELSE sret

\* the tail of a collection method: joins resolved and fields projected under
\* an item-level response schema, the envelope built under an envelope schema
Respond(o, c, sret) ==
  LET schema == ResponseSchemaOf(o, c)
      shaped(item) ==
        projectResponse(IF Len(Relations(c)) > 0
                        THEN resolveJoins(c, item, schema, data) ELSE item, schema)
  IN IF o = "list"
     THEN IF sret = TypeError THEN sret
          ELSE IF schema.schemaType = "object" /\ isResponseEnvelope(schema)
               THEN [kind |-> "list", response |-> buildResponseFromSchema(sret)]
               ELSE [kind |-> "list",
                     response |-> [sret EXCEPT !.data =
                                     [i \in 1..Len(sret.data) |-> shaped(sret.data[i])]]]
     ELSE IF sret.kind = "item" /\ schema # NoSchema THEN Item(shaped(sret.item))
          ELSE sret

\* a facade whose update and replace resolve with null on a missing id
FacadeResolvingNull(o, c, arg, sret) ==
  CASE o = "get"    -> IF sret = Null THEN NotFound(c, arg["id"]) ELSE Respond(o, c, sret)
    [] o = "delete" -> Void
    [] OTHER        -> Respond(o, c, sret)

Facade(o, c, arg, sret) ==
  CASE o = "get"     -> IF sret = Null THEN NotFound(c, arg["id"]) ELSE Respond(o, c, sret)
    [] o = "update"  -> IF sret = Null THEN NotFound(c, arg["id"]) ELSE Respond(o, c, sret)
    [] o = "replace" -> IF sret = Null THEN NotFound(c, arg["id"]) ELSE Respond(o, c, sret)
    [] o = "delete"  -> Void
    [] OTHER         -> Respond(o, c, sret)

\* ------------------------------------------- configured errors and hooks
\* An ErrorConfig is [code, failNow, failIf]; failIf is "none" or the name of
\* the caller's predicate: "expensive" is (input) => input.price > 15, which
\* throws a TypeError on a null input.
Passed == [kind |-> "passed"]

StatusError(code) == [kind |-> "error", message |-> "Operation failed", status |-> code]

failIf(name, input) == Has(input, "price") /\ input["price"] > 15

\* a checkAndThrowError that looks at failNow only
checkAndThrowErrorNow(errors, input) ==
  IF \E i \in 1..Len(errors) : errors[i].failNow
  THEN StatusError(errors[CHOOSE i \in 1..Len(errors) : errors[i].failNow].code)
  ELSE Passed

RECURSIVE checkAndThrowError(_, _)
\* checkAndThrowError(errors, input): Passed, or what it throws
checkAndThrowError(errors, input) ==
  IF errors = <<>> THEN Passed
  ELSE LET errorConfig == Head(errors)
       IN IF errorConfig.failNow THEN StatusError(errorConfig.code)
          ELSE IF errorConfig.failIf # "none"
               THEN IF input = Null THEN TypeError
                    ELSE IF failIf(errorConfig.failIf, input)
                         THEN StatusError(errorConfig.code)
                         ELSE checkAndThrowError(Tail(errors), input)
               ELSE checkAndThrowError(Tail(errors), input)

\* the input handed to checkAndThrowError: data for create, { id, ...data }
\* for update and replace
ErrorInput(o, arg) ==
  IF o = "create" THEN arg ELSE Spread(("id" :> arg["id"]), arg["data"])

HookError == [kind |-> "error", message |-> "hook"]

\* the price a rewriting before-hook puts on the data it returns
HookPrice == 40

HookedOps == {"create", "update", "delete"}

\* a collection method that never runs its before-hook
beforeHookSkipped(o, arg) ==
  [thrown |-> FALSE, arg |-> arg, log |-> <<>>]

\* `if (hooks?.beforeX) processedData = await hooks.beforeX(...)`: whether the
\* hook threw, the argument for the store method, and the hooks that ran
beforeHook(o, arg) ==
  IF o \notin HookedOps \/ config.hooks.before = "absent"
  THEN [thrown |-> FALSE, arg |-> arg, log |-> <<>>]
  ELSE IF config.hooks.before = "reject"
       THEN [thrown |-> TRUE, arg |-> arg, log |-> <<"before">>]
       ELSE [thrown |-> FALSE, log |-> <<"before">>,
             arg |-> CASE o = "create" -> Spread(arg, ("price" :> HookPrice))
                       [] o = "update" ->
                            [arg EXCEPT !["data"] = Spread(@, ("price" :> HookPrice))]
                       [] OTHER -> arg]

\* the rest of a collection method after its store method resolved with sret:
\* the not-found throw of update and replace, the after-hook, the response
Settle(o, c, arg, sret, log) ==
  IF o \in {"update", "replace"} /\ sret = Null
  THEN [ret |-> NotFound(c, arg["id"]), log |-> log]
  ELSE IF o \notin HookedOps \/ config.hooks.after = "absent"
       THEN [ret |-> Facade(o, c, arg, sret), log |-> log]
       ELSE [ret |-> IF config.hooks.after = "reject" THEN HookError
                     ELSE Facade(o, c, arg, sret),
             log |-> Append(log, "after")]

\* ------------------------------------------------------------- inputs
CreateInputs ==
  {("price" :> 10), ("price" :> 20),
   ("id" :> 90 @@ "createdAt" :> 7 @@ "updatedAt" :> 7 @@ "price" :> 30)}

UpdateInputs ==
  {EmptyRec, ("price" :> 20), ("id" :> 91 @@ "createdAt" :> 7 @@ "price" :> 30)}

ReplaceInputs ==
  {("price" :> 20), ("userId" :> 90),
   ("id" :> 91 @@ "createdAt" :> 7 @@ "updatedAt" :> 7 @@ "price" :> 30)}

Filters == {<<[field |-> "price", value |-> [ops |-> ("$gt" :> 15)]]>>}

ListInputs ==
  {EmptyRec} \cup
  {("page" :> p @@ "limit" :> l) : p \in 1..2, l \in 1..2} \cup
  {("page" :> p @@ "limit" :> 1 @@ "filter" :> f) : p \in 1..2, f \in Filters}

IdInputs(m) == MapKeys(m) \cup CallerIds

\* --------------------------------------------------------------- tasks
\* pc: position; op, col: the method called and its collection; order, avail:
\* seedOrder (from the current store on) and availableIds of a pass; seed: the
\* generated seed list; snap: the list a bulk save is writing; res: the call's
\* argument and result while the persistence mirror runs; rid: the id a
\* finished create returned (0: none), with given = 1 when the caller chose it
\* input, arg, log, stage: the argument a collection method was called with,
\* the one it hands to the store, the hooks it has run, and whether its store
\* call is the findById that opens a delete ("lookup") or the operation itself
NoTask ==
  [pc |-> "idle", op |-> "none", col |-> "none", order |-> <<>>, avail |-> EmptyRec,
   seed |-> <<>>, snap |-> <<>>, res |-> None, rid |-> 0, given |-> 0,
   input |-> EmptyRec, arg |-> EmptyRec, log |-> <<>>, stage |-> "store"]

\* out.step = "body": the synchronous part of a store method just ran on the
\* Map pre (sret is what the method will resolve to); out.step = "persisted":
\* its persistence mirror returned; out.ret # None: the facade method settled;
\* out.step = "pass_end": initializeAllCollections returned
Quiet == [step |-> "none"]

\* the store a task is seeding: the head of the seed order inside a pass,
\* its own store on the fallback path
Cur(t) == IF tk[t].order # <<>> THEN Head(tk[t].order) ELSE tk[t].col

ClockReads == {n \in {now, now + 1} : n <= MaxClock}

Init ==
  /\ registry = <<>>
  /\ seedCount = [c \in Collections |-> 0]
  /\ data = [c \in Collections |-> <<>>]
  /\ initialized = [c \in Collections |-> FALSE]
  /\ isInitializingAll = FALSE
  /\ mode \in Modes
  /\ config = DefaultConfig
  /\ disk = [c \in Collections |-> <<>>]
  /\ now = 1
  /\ nextId = 1
  /\ seedRuns = [c \in Collections |-> 0]
  /\ tk = [t \in Tasks |-> NoTask]
  /\ out = Quiet

\* ------------------------------------------------------------- actions
\* loadFromPersistence: the persisted list, or null (here the empty list) in
\* memory mode and when the load fails, the failure being caught and logged
loadFromPersistence(c) ==
  IF mode = "local"
  THEN {disk[c]} \cup (IF "persistence" \in config.faults THEN {<<>>} ELSE {})
  ELSE {<<>>}

\* a bulk save whose failure is thrown to the store method
persistThrowing(c, snap) ==
  IF mode = "local"
  THEN {[disk |-> [disk EXCEPT ![c] = snap], saved |-> TRUE, thrown |-> FALSE]}
       \cup (IF "persistence" \in config.faults
             THEN {[disk |-> disk, saved |-> FALSE, thrown |-> TRUE]} ELSE {})
  ELSE {[disk |-> disk, saved |-> FALSE, thrown |-> FALSE]}

\* persist() and the persistCreate / persistUpdate / persistDelete mirrors
\* (a bulk save in local mode) of the list snap: what the disk holds after,
\* whether the list was written and whether the call threw. A failure is
\* caught and logged inside.
persist(c, snap) ==
  IF mode = "local"
  THEN {[disk |-> [disk EXCEPT ![c] = snap], saved |-> TRUE, thrown |-> FALSE]}
       \cup (IF "persistence" \in config.faults
             THEN {[disk |-> disk, saved |-> FALSE, thrown |-> FALSE]} ELSE {})
  ELSE {[disk |-> disk, saved |-> FALSE, thrown |-> FALSE]}

\* an exception leaves the store method and the collection method: the task
\* ends, its caller gets the error (rest: the stores the pass it was in had
\* still to go through, the failing one first); the task keeps in res whether
\* it failed inside a pass
Thrown(t, error) ==
  [step |-> "thrown", task |-> t, op |-> tk[t].op, col |-> tk[t].col, ret |-> error,
   rest |-> tk[t].order]

Failed(t) ==
  [tk[t] EXCEPT !.pc = "done", !.order = <<>>, !.avail = EmptyRec, !.seed = <<>>,
                !.snap = <<>>, !.res = [kind |-> "failed", pass |-> tk[t].order # <<>>]]

PersistenceError == [kind |-> "error", message |-> "persistence"]

GenerationError == [kind |-> "error", message |-> "generation"]

Registered(c) == c \in SeqToSet(registry)

\* defineCollection with a new name: builds the store (empty, uninitialized)
\* and registers the collection
DefineCollection(c, counts) ==
  /\ out' = Quiet
  /\ ~Registered(c)
  /\ \E n \in counts : seedCount' = [seedCount EXCEPT ![c] = n]
  /\ registry' = Append(registry, c)
  /\ UNCHANGED <<data, initialized, isInitializingAll, mode, config, disk, now, nextId,
                 seedRuns, tk>>

\* a defineCollection that builds and registers a store whatever the name
defineCollectionAnew(c, n) ==
  [registry |-> Append(registry, c), seedCount |-> [seedCount EXCEPT ![c] = n],
   created |-> TRUE]

\* defineCollection(config) for the name c and seed count n: the registry and
\* the stores' seed counts after the call, and whether a store was built
defineCollection(c, n) ==
  IF Registered(c)
  THEN [registry |-> registry, seedCount |-> seedCount, created |-> FALSE]
  ELSE [registry |-> Append(registry, c), seedCount |-> [seedCount EXCEPT ![c] = n],
        created |-> TRUE]

\* defineCollection with any name, registered or not; a store that is built
\* is empty and uninitialized
Define(c, counts) ==
  \E n \in counts :
    LET d == defineCollection(c, n)
    IN /\ registry' = d.registry
       /\ seedCount' = d.seedCount
       /\ data' = IF d.created THEN [data EXCEPT ![c] = <<>>] ELSE data
       /\ initialized' = IF d.created THEN [initialized EXCEPT ![c] = FALSE]
                         ELSE initialized
       /\ out' = [step |-> "defined", col |-> c, n |-> n, created |-> d.created,
                  pre |-> [registry |-> registry, seedCount |-> seedCount,
                           data |-> data, initialized |-> initialized]]
       /\ UNCHANGED <<isInitializingAll, mode, config, disk, now, nextId, seedRuns, tk>>

\* a caller invokes one method of a collection; the method runs to its first
\* await (tasks are interchangeable: they are started in index order)
Call(t, ops) ==
  /\ out' = Quiet
  /\ tk[t].pc = "idle"
  /\ \A u \in Tasks : u < t => tk[u].pc # "idle"
  /\ \E c \in SeqToSet(registry), o \in ops :
       tk' = [tk EXCEPT ![t] = [@ EXCEPT !.pc = "called", !.op = o, !.col = c]]
  /\ UNCHANGED <<registry, seedCount, data, initialized, isInitializingAll, mode, config,
                 disk, now, nextId, seedRuns>>

\* a loop that passes over the first store of the seed order
SkipFirst(order, inited) ==
  IF order = <<>> THEN <<>> ELSE Tail(order)

\* the loop head of initializeAllCollections: skip the stores already initialized
RECURSIVE SkipInitialized(_, _)
SkipInitialized(order, inited) ==
  IF order = <<>> THEN <<>>
  ELSE IF inited[Head(order)] THEN SkipInitialized(Tail(order), inited)
       ELSE order

\* the task after the loop moved on: awaiting loadFromPersistence of the next
\* store, or out of the pass (the finally block clears the flag)
Advance(rec, order, avail, inited) ==
  LET rest == SkipInitialized(order, inited)
  IN IF rest = <<>>
     THEN [rec EXCEPT !.pc = "fallback", !.order = <<>>, !.avail = EmptyRec]
     ELSE [rec EXCEPT !.pc = "pass_load", !.order = rest, !.avail = avail]

\* what a step of the loop reports: initializeAllCollections returned (with
\* the availableIds it had gathered), or nothing
PassOut(t, rec, avail) ==
  IF rec.pc = "fallback"
  THEN [step |-> "pass_end", task |-> t, availableIds |-> avail]
  ELSE Quiet

\* an initialize() whose initializeAllCollections does not test the flag
EnterUnguarded(t) ==
  /\ out' = Quiet
  /\ tk[t].pc = "called"
  /\ IF tk[t].op = "clear" \/ initialized[tk[t].col]
     THEN /\ tk' = [tk EXCEPT ![t].pc = "body"]
          /\ UNCHANGED isInitializingAll
     ELSE /\ isInitializingAll' = TRUE
          /\ tk' = [tk EXCEPT ![t].pc = "pass_start"]
  /\ UNCHANGED <<registry, seedCount, data, initialized, mode, config, disk, now, nextId,
                 seedRuns>>

\* the store method calls initialize(): the initialized fast path, the
\* flag test of initializeAllCollections, or the start of a pass
Enter(t) ==
  /\ out' = Quiet
  /\ tk[t].pc = "called"
  /\ LET c == tk[t].col IN
       IF tk[t].op = "clear" \/ initialized[c]
       THEN /\ tk' = [tk EXCEPT ![t].pc = "body"]
            /\ UNCHANGED isInitializingAll
       ELSE IF isInitializingAll
            THEN /\ tk' = [tk EXCEPT ![t].pc = "fallback"]
                 /\ UNCHANGED isInitializingAll
            ELSE /\ isInitializingAll' = TRUE
                 /\ tk' = [tk EXCEPT ![t].pc = "pass_start"]
  /\ UNCHANGED <<registry, seedCount, data, initialized, mode, config, disk, now, nextId,
                 seedRuns>>

\* after the dynamic imports: read the seed order and enter the loop
PassStart(t) ==
  /\ tk[t].pc = "pass_start"
  /\ LET rec == Advance(tk[t], getCollectionSeedOrder(registry), EmptyRec, initialized)
     IN /\ tk' = [tk EXCEPT ![t] = rec]
        /\ isInitializingAll' = (rec.pc # "fallback")
        /\ out' = PassOut(t, rec, EmptyRec)
  /\ UNCHANGED <<registry, seedCount, data, initialized, mode, config, disk, now, nextId,
                 seedRuns>>

\* initializeWithFKIntegrity up to `await this.generateSeedData(...)`, entered
\* with the store not initialized: the faker branch builds the seed list
StartSeeding(t, c, pools, rec) ==
  \E time \in ClockReads :
    \E s \in generateSeedData(c, pools, seedCount[c], nextId, time) :
      /\ tk' = [tk EXCEPT ![t] = [rec EXCEPT !.pc = "seed_set", !.seed = s]]
      /\ nextId' = nextId + seedCount[c] * Slots(c)
      /\ now' = time
      /\ seedRuns' = [seedRuns EXCEPT ![c] = @ + 1]

\* what a step reports when a load came back empty: nothing, or that the
\* load of a non-empty persisted list failed
LoadOut(t, c) ==
  IF mode = "local" /\ disk[c] # <<>>
  THEN [step |-> "load_failed", task |-> t, col |-> c, pre |-> data[c]]
  ELSE Quiet

\* loadFromPersistence returned
PassLoad(t) ==
  /\ tk[t].pc = "pass_load"
  /\ \E persistedData \in loadFromPersistence(Head(tk[t].order)) :
     LET c == Head(tk[t].order)
     IN IF Len(persistedData) > 0
        THEN LET m      == MapSetAll(data[c], persistedData)
                 inited == [initialized EXCEPT ![c] = TRUE]
                 avail  == Spread(tk[t].avail, (c :> MapKeyList(m)))
                 rec    == Advance(tk[t], Tail(tk[t].order), avail, inited)
             IN /\ data' = [data EXCEPT ![c] = m]
                /\ initialized' = inited
                /\ tk' = [tk EXCEPT ![t] = rec]
                /\ isInitializingAll' = (rec.pc # "fallback")
                /\ out' = PassOut(t, rec, avail)
                /\ UNCHANGED <<now, nextId, seedRuns>>
        ELSE IF initialized[c]
             THEN /\ tk' = [tk EXCEPT ![t].pc = "pass_seeded"]
                  /\ out' = LoadOut(t, c)
                  /\ UNCHANGED <<data, initialized, isInitializingAll, now, nextId,
                                 seedRuns>>
             ELSE /\ StartSeeding(t, c, FkValuePools(c, tk[t].avail), tk[t])
                  /\ out' = LoadOut(t, c)
                  /\ UNCHANGED <<data, initialized, isInitializingAll>>
  /\ UNCHANGED <<registry, seedCount, mode, config, disk>>

\* generateSeedData returned: store the seed items, call persist()
SeedSet(t) ==
  /\ out' = Quiet
  /\ tk[t].pc = "seed_set"
  /\ LET c == Cur(t)
         m == MapSetAll(data[c], tk[t].seed)
     IN /\ data' = [data EXCEPT ![c] = m]
        /\ tk' = [tk EXCEPT ![t] = [@ EXCEPT !.pc = "seed_persist", !.seed = <<>>,
                     !.snap = IF mode = "local" THEN MapValues(m) ELSE <<>>]]
  /\ UNCHANGED <<registry, seedCount, initialized, isInitializingAll, mode, config, disk,
                 now, nextId, seedRuns>>

\* persist() returned: the store is marked initialized (had persist() thrown,
\* initialize() would have thrown, through the pass's finally block)
SeedPersist(t) ==
  /\ tk[t].pc = "seed_persist"
  /\ \E p \in persist(Cur(t), tk[t].snap) :
       /\ disk' = p.disk
       /\ IF p.thrown
          THEN /\ out' = Thrown(t, PersistenceError)
               /\ tk' = [tk EXCEPT ![t] = Failed(t)]
               /\ isInitializingAll' = (tk[t].order = <<>> /\ isInitializingAll)
               /\ UNCHANGED initialized
          ELSE /\ out' = IF mode = "local" /\ ~p.saved
                         THEN [step |-> "seed_unsaved", task |-> t, col |-> Cur(t)]
                         ELSE Quiet
               /\ initialized' = [initialized EXCEPT ![Cur(t)] = TRUE]
               /\ tk' = [tk EXCEPT ![t] = [@ EXCEPT !.snap = <<>>,
                            !.pc = IF tk[t].order # <<>> THEN "pass_seeded" ELSE "body"]]
               /\ UNCHANGED isInitializingAll
  /\ UNCHANGED <<registry, seedCount, data, mode, config, now, nextId, seedRuns>>

\* a pass whose failure leaves the flag set
SeedRejectedFlagKept(t) ==
  /\ tk[t].pc = "seed_set"
  /\ config.generateMode = "ai"
  /\ "ai" \in config.faults
  /\ out' = Thrown(t, GenerationError)
  /\ tk' = [tk EXCEPT ![t] = Failed(t)]
  /\ UNCHANGED <<registry, seedCount, data, initialized, isInitializingAll, mode, config,
                 disk, now, nextId, seedRuns>>

\* generateSeedData rejected: in 'ai' mode the AI generator's failure is
\* rethrown, through initializeWithFKIntegrity, the pass (whose finally block
\* clears the flag) and initialize(), to the caller of the store method
SeedRejected(t) ==
  /\ tk[t].pc = "seed_set"
  /\ config.generateMode = "ai"
  /\ "ai" \in config.faults
  /\ out' = Thrown(t, GenerationError)
  /\ tk' = [tk EXCEPT ![t] = Failed(t)]
  /\ isInitializingAll' = (tk[t].order = <<>> /\ isInitializingAll)
  /\ UNCHANGED <<registry, seedCount, data, initialized, mode, config, disk, now,
                 nextId, seedRuns>>

\* back in the loop: record the store's ids, go to the next store
PassSeeded(t) ==
  /\ tk[t].pc = "pass_seeded"
  /\ LET c     == Head(tk[t].order)
         avail == Spread(tk[t].avail, (c :> MapKeyList(data[c])))
         rec   == Advance(tk[t], Tail(tk[t].order), avail, initialized)
     IN /\ tk' = [tk EXCEPT ![t] = rec]
        /\ isInitializingAll' = (rec.pc # "fallback")
        /\ out' = PassOut(t, rec, avail)
  /\ UNCHANGED <<registry, seedCount, data, initialized, mode, config, disk, now, nextId,
                 seedRuns>>

\* an initialize() that returns once initializeAllCollections has
FallbackReturning(t) ==
  /\ out' = Quiet
  /\ tk[t].pc = "fallback"
  /\ tk' = [tk EXCEPT ![t].pc = "body"]
  /\ UNCHANGED <<registry, seedCount, data, initialized, isInitializingAll, mode,
                 config, disk, now, nextId, seedRuns>>

\* initialize() after `await DataStore.initializeAllCollections()`
Fallback(t) ==
  /\ out' = Quiet
  /\ tk[t].pc = "fallback"
  /\ IF initialized[tk[t].col]
     THEN /\ tk' = [tk EXCEPT ![t].pc = "body"]
          /\ UNCHANGED <<now, nextId, seedRuns>>
     ELSE StartSeeding(t, tk[t].col, EmptyRec, tk[t])
  /\ UNCHANGED <<registry, seedCount, data, initialized, isInitializingAll, mode,
                 config, disk>>

\* the outcome of a store method's synchronous part, for every input the
\* caller may have passed (a list's options are drawn from lists):
\* [arg, data, ret, persist, time, ids]
Outcomes(o, m, lists) ==
  CASE o = "list" ->
         UNION {{[arg |-> opt, data |-> m, ret |-> r, persist |-> FALSE,
                  time |-> now, ids |-> 0] : r \in queryOutcomes(m, opt)} :
                  opt \in lists}
    [] o = "get" ->
         {[arg |-> ("id" :> id), data |-> m, ret |-> findById(m, id),
           persist |-> FALSE, time |-> now, ids |-> 0] : id \in IdInputs(m)}
    [] o = "create" ->
         {[arg |-> item, time |-> time, ids |-> 1] @@ insert(m, item, nextId, time) :
            item \in CreateInputs, time \in ClockReads}
    [] o = "update" ->
         {[arg |-> ("id" :> id @@ "data" :> u), time |-> time, ids |-> 0]
            @@ update(m, id, u, time) :
            id \in IdInputs(m), u \in UpdateInputs, time \in ClockReads}
    [] o = "replace" ->
         {[arg |-> ("id" :> id @@ "data" :> u), time |-> time, ids |-> 0]
            @@ replace(m, id, u, time) :
            id \in IdInputs(m), u \in ReplaceInputs, time \in ClockReads}
    [] o = "delete" ->
         {[arg |-> ("id" :> id), time |-> now, ids |-> 0] @@ delete(m, id) :
            id \in IdInputs(m)}
    [] o = "clear" ->
         {[arg |-> EmptyRec, time |-> now, ids |-> 0] @@ clear(m)}

\* the id a create returned (0: the result carries none), and whether the
\* caller's item carried a truthy id
ReturnedId(o, ret) == IF o = "create" /\ ret.kind = "item" THEN ret.item["id"] ELSE 0

GivenId(o, arg) == IF o = "create" /\ Truthy(arg, "id") THEN 1 ELSE 0

\* the synchronous part of the store method after `await this.initialize()`:
\* it reads and writes the Map and, for a mutation, calls the persistence
\* mirror (whose bulk save copies the Map's values before its first await);
\* without a persistence call the method and the facade return
BodyOf(t, lists) ==
  /\ tk[t].pc = "body"
  /\ LET c == tk[t].col
         o == tk[t].op
     IN \E r \in Outcomes(o, data[c], lists) :
          LET res == [task |-> t, op |-> o, col |-> c, arg |-> r.arg, sret |-> r.ret,
                      ret |-> IF r.persist THEN None ELSE Facade(o, c, r.arg, r.ret)]
          IN /\ data' = [data EXCEPT ![c] = r.data]
             /\ now' = r.time
             /\ nextId' = nextId + r.ids
             /\ out' = [step |-> "body", pre |-> data[c]] @@ res
             /\ tk' = [tk EXCEPT ![t] =
                  IF r.persist
                  THEN [@ EXCEPT !.pc = "op_persist", !.res = res,
                                 !.snap = IF mode = "local" THEN MapValues(r.data)
                                          ELSE <<>>]
                  ELSE [@ EXCEPT !.pc = "done", !.rid = ReturnedId(o, res.ret),
                                 !.given = GivenId(o, res.arg)]]
  /\ UNCHANGED <<registry, seedCount, initialized, isInitializingAll, mode, config, disk,
                 seedRuns>>

Body(t) == BodyOf(t, ListInputs)

\* the persistence mirror returned; the store method and then the facade return
OpPersist(t) ==
  /\ tk[t].pc = "op_persist"
  /\ \E p \in persist(tk[t].col, tk[t].snap) :
       LET res == tk[t].res
           ret == IF p.thrown THEN PersistenceError
                  ELSE Facade(res.op, res.col, res.arg, res.sret)
       IN /\ out' = [step |-> "persisted", saved |-> p.saved, pre |-> data[res.col]]
                    @@ [res EXCEPT !.ret = ret]
          /\ tk' = [tk EXCEPT ![t] = [@ EXCEPT !.pc = "done", !.snap = <<>>,
                       !.res = None, !.rid = ReturnedId(res.op, ret),
                       !.given = GivenId(res.op, res.arg)]]
          /\ disk' = p.disk
  /\ UNCHANGED <<registry, seedCount, data, initialized, isInitializingAll, mode, config,
                 now, nextId, seedRuns>>

Mutations == {"create", "update", "replace", "delete"}

\* the arguments a caller may pass to a mutating collection method (creates:
\* the items it may pass to create)
Arguments(o, m, creates) ==
  CASE o = "create"  -> creates
    [] o = "update"  -> {("id" :> id @@ "data" :> u) : id \in IdInputs(m), u \in UpdateInputs}
    [] o = "replace" -> {("id" :> id @@ "data" :> u) : id \in IdInputs(m), u \in ReplaceInputs}
    [] o = "delete"  -> {("id" :> id) : id \in IdInputs(m)}

\* the store method a mutating collection method calls
StoreCall(o, m, arg, genId, time) ==
  CASE o = "create"  -> insert(m, arg, genId, time)
    [] o = "update"  -> update(m, arg["id"], arg["data"], time)
    [] o = "replace" -> replace(m, arg["id"], arg["data"], time)
    [] o = "delete"  -> delete(m, arg["id"])

\* a collection method rejects before its store method ran (checked: what
\* checkAndThrowError was given)
Rejected(t, o, c, input, checked, error, log) ==
  [step |-> "rejected", task |-> t, op |-> o, col |-> c, input |-> input,
   checked |-> checked, ret |-> error, log |-> log, pre |-> data[c]]

\* checkAndThrowError and the before-hook let a collection method through
Checked(t, o, c, input, checked, log) ==
  [step |-> "checked", task |-> t, op |-> o, col |-> c, input |-> input,
   checked |-> checked, log |-> log, pre |-> data[c]]

\* a caller invokes a mutating collection method with an argument; the method
\* runs up to its store call: checkAndThrowError, applyDelay and the
\* before-hook for create, update and replace, store.findById for delete
Invoke(t, ops, creates) ==
  /\ tk[t].pc = "idle"
  /\ \A u \in Tasks : u < t => tk[u].pc # "idle"
  /\ \E c \in SeqToSet(registry), o \in ops :
       \E input \in Arguments(o, data[c], creates) :
         LET called == [tk[t] EXCEPT !.op = o, !.col = c, !.input = input, !.arg = input]
         IN IF o = "delete"
            THEN /\ tk' = [tk EXCEPT ![t] = [called EXCEPT !.pc = "called",
                                                           !.stage = "lookup"]]
                 /\ out' = Quiet
            ELSE LET checked == ErrorInput(o, input)
                     thrown  == checkAndThrowError(config.errors, checked)
                     b       == beforeHook(o, input)
                 IN IF thrown # Passed
                    THEN /\ tk' = [tk EXCEPT ![t] = [called EXCEPT !.pc = "done"]]
                         /\ out' = Rejected(t, o, c, input, checked, thrown, <<>>)
                    ELSE IF b.thrown
                         THEN /\ tk' = [tk EXCEPT ![t] = [called EXCEPT !.pc = "done",
                                                                        !.log = b.log]]
                              /\ out' = Rejected(t, o, c, input, checked, HookError, b.log)
                         ELSE /\ tk' = [tk EXCEPT ![t] = [called EXCEPT !.pc = "called",
                                            !.arg = b.arg, !.log = b.log]]
                              /\ out' = Checked(t, o, c, input, checked, b.log)
  /\ UNCHANGED <<registry, seedCount, data, initialized, isInitializingAll, mode, config,
                 disk, now, nextId, seedRuns>>

\* delete after `await store.findById(id)`: checkAndThrowError on the item
\* found (null when there is none), applyDelay, beforeDelete, up to store.delete
Lookup(t) ==
  /\ tk[t].pc = "body"
  /\ tk[t].stage = "lookup"
  /\ LET c       == tk[t].col
         id      == tk[t].arg["id"]
         item    == IF MapHas(data[c], id) THEN MapGet(data[c], id) ELSE Null
         thrown  == checkAndThrowError(config.errors, item)
         b       == beforeHook("delete", tk[t].arg)
     IN IF thrown # Passed
        THEN /\ tk' = [tk EXCEPT ![t] = [@ EXCEPT !.pc = "done"]]
             /\ out' = Rejected(t, "delete", c, tk[t].input, item, thrown, <<>>)
        ELSE IF b.thrown
             THEN /\ tk' = [tk EXCEPT ![t] = [@ EXCEPT !.pc = "done", !.log = b.log]]
                  /\ out' = Rejected(t, "delete", c, tk[t].input, item, HookError, b.log)
             ELSE /\ tk' = [tk EXCEPT ![t] = [@ EXCEPT !.stage = "store", !.log = b.log]]
                  /\ out' = Checked(t, "delete", c, tk[t].input, item, b.log)
  /\ UNCHANGED <<registry, seedCount, data, initialized, isInitializingAll, mode, config,
                 disk, now, nextId, seedRuns>>

\* the synchronous part of the store method a collection method called with
\* its argument, up to the persistence mirror; without a persistence call the
\* store method returns and the collection method runs to its end
Execute(t) ==
  /\ tk[t].pc = "body"
  /\ tk[t].stage = "store"
  /\ tk[t].op \in Mutations
  /\ LET c == tk[t].col
         o == tk[t].op
     IN \E time \in IF o = "delete" THEN {now} ELSE ClockReads :
          LET r   == StoreCall(o, data[c], tk[t].arg, nextId, time)
              s   == Settle(o, c, tk[t].arg, r.ret, tk[t].log)
              res == [task |-> t, op |-> o, col |-> c, arg |-> tk[t].arg, sret |-> r.ret,
                      ret |-> IF r.persist THEN None ELSE s.ret]
              log == IF r.persist THEN tk[t].log ELSE s.log
          IN /\ data' = [data EXCEPT ![c] = r.data]
             /\ now' = time
             /\ nextId' = nextId + (IF o = "create" THEN 1 ELSE 0)
             /\ out' = [step |-> "body", pre |-> data[c], input |-> tk[t].input,
                        log |-> log] @@ res
             /\ tk' = [tk EXCEPT ![t] =
                  IF r.persist
                  THEN [@ EXCEPT !.pc = "op_persist", !.res = res,
                                 !.snap = IF mode = "local" THEN MapValues(r.data)
                                          ELSE <<>>]
                  ELSE [@ EXCEPT !.pc = "done", !.log = log]]
  /\ UNCHANGED <<registry, seedCount, initialized, isInitializingAll, mode, config, disk,
                 seedRuns>>

\* the persistence mirror returned; the store method returns and the
\* collection method runs to its end
Return(t) ==
  /\ tk[t].pc = "op_persist"
  /\ \E p \in persist(tk[t].col, tk[t].snap) :
       LET res == tk[t].res
           s   == IF p.thrown THEN [ret |-> PersistenceError, log |-> tk[t].log]
                  ELSE Settle(res.op, res.col, res.arg, res.sret, tk[t].log)
       IN /\ out' = [step |-> "persisted", saved |-> p.saved, pre |-> data[res.col],
                     input |-> tk[t].input, log |-> s.log] @@ [res EXCEPT !.ret = s.ret]
          /\ tk' = [tk EXCEPT ![t] = [@ EXCEPT !.pc = "done", !.snap = <<>>,
                       !.res = None, !.log = s.log]]
          /\ disk' = p.disk
  /\ UNCHANGED <<registry, seedCount, data, initialized, isInitializingAll, mode, config,
                 now, nextId, seedRuns>>

RelatedNotFound(c) ==
  [kind |-> "error", message |-> "Related collection not found", collection |-> c]

\* a relation method that returns every record of the related store
allRelated(allItems, foreignKey, parentId) == allItems

\* allItems.filter(item => item[relationConfig.foreignKey] === parentId)
filterRelated(allItems, foreignKey, parentId) ==
  SelectSeq(allItems, LAMBDA item : Has(item, foreignKey) /\ item[foreignKey] = parentId)

\* a caller invokes the relation method of a collection (getPosts of users,
\* getUser of posts) with a parent id; the method throws when the related
\* collection is not registered and calls toArray() of its store otherwise
CallRelation(t) ==
  /\ tk[t].pc = "idle"
  /\ \A u \in Tasks : u < t => tk[u].pc # "idle"
  /\ \E c \in SeqToSet(registry) :
       \E parentId \in IdInputs(data[c]), i \in 1..Len(Relations(c)) :
         LET relationConfig == Relations(c)[i]
             called == [tk[t] EXCEPT !.op = "relation", !.col = relationConfig.collection,
                                     !.input = ("id" :> parentId), !.arg = relationConfig]
         IN IF ~Registered(relationConfig.collection)
            THEN /\ tk' = [tk EXCEPT ![t] = [called EXCEPT !.pc = "done"]]
                 /\ out' = [step |-> "rejected", task |-> t, op |-> "relation",
                            col |-> relationConfig.collection, input |-> called.input,
                            arg |-> relationConfig,
                            ret |-> RelatedNotFound(relationConfig.collection)]
            ELSE /\ tk' = [tk EXCEPT ![t] = [called EXCEPT !.pc = "called"]]
                 /\ out' = Quiet
  /\ UNCHANGED <<registry, seedCount, data, initialized, isInitializingAll, mode, config,
                 disk, now, nextId, seedRuns>>

\* toArray() after `await this.initialize()`, and the filter of the relation
\* method on what it returned
RelationBody(t) ==
  /\ tk[t].pc = "body"
  /\ tk[t].op = "relation"
  /\ LET c        == tk[t].col
         allItems == MapValues(data[c])
     IN /\ out' = [step |-> "body", task |-> t, op |-> "relation", col |-> c,
                   input |-> tk[t].input, arg |-> tk[t].arg, pre |-> data[c],
                   ret |-> [kind |-> "items",
                            items |-> filterRelated(allItems, tk[t].arg.foreignKey,
                                                    tk[t].input["id"])]]
        /\ tk' = [tk EXCEPT ![t] = [@ EXCEPT !.pc = "done"]]
  /\ UNCHANGED <<registry, seedCount, data, initialized, isInitializingAll, mode, config,
                 disk, now, nextId, seedRuns>>

\* one collection, every operation
Next ==
  \/ DefineCollection("users", 0..MaxSeed)
  \/ \E t \in Tasks :
       \/ Call(t, Ops)
       \/ Enter(t)
       \/ PassStart(t)
       \/ PassLoad(t)
       \/ SeedSet(t)
       \/ SeedPersist(t)
       \/ PassSeeded(t)
       \/ Fallback(t)
       \/ Body(t)
       \/ OpPersist(t)

Spec == Init /\ [][Next]_vars

\* two related collections, read operations only
InitOps == {"list"}

NextInit ==
  \/ \E c \in Collections : DefineCollection(c, 1..MaxSeed)
  \/ \E t \in Tasks :
       \/ Call(t, InitOps)
       \/ Enter(t)
       \/ PassStart(t)
       \/ PassLoad(t)
       \/ SeedSet(t)
       \/ SeedPersist(t)
       \/ PassSeeded(t)
       \/ Fallback(t)
       \/ Body(t)

SpecInit == Init /\ [][NextInit]_vars

\* a store seeded up to the default page size, reads and creates only
PageSeedCounts == {MaxSeed, DefaultLimit}

InitPage ==
  /\ registry = <<"users">>
  /\ seedCount \in {[c \in Collections |-> IF c = "users" THEN n ELSE 0] :
                      n \in PageSeedCounts}
  /\ data = [c \in Collections |-> <<>>]
  /\ initialized = [c \in Collections |-> FALSE]
  /\ isInitializingAll = FALSE
  /\ mode = "memory"
  /\ config = DefaultConfig
  /\ disk = [c \in Collections |-> <<>>]
  /\ now = 1
  /\ nextId = 1
  /\ seedRuns = [c \in Collections |-> 0]
  /\ tk = [t \in Tasks |-> NoTask]
  /\ out = Quiet

PageOps == {"create", "list"}

NextPage ==
  \E t \in Tasks :
    \/ Call(t, PageOps)
    \/ Enter(t)
    \/ PassStart(t)
    \/ PassLoad(t)
    \/ SeedSet(t)
    \/ SeedPersist(t)
    \/ PassSeeded(t)
    \/ Fallback(t)
    \/ Body(t)
    \/ OpPersist(t)

SpecPage == InitPage /\ [][NextPage]_vars

\* a populated, initialized store in memory mode, queried only
\* the fields of a stored record beside id and the timestamps, as
\* <<price, category>>; price 0 stands for a record without the field
QueryKinds == {<<0, 1>>, <<10, 1>>, <<20, 1>>, <<10, 2>>}

QueryRecord(id, kind) ==
  IF kind[1] = 0
  THEN ("id" :> id @@ "createdAt" :> 1 @@ "updatedAt" :> 1 @@ "category" :> kind[2])
  ELSE ("id" :> id @@ "createdAt" :> 1 @@ "updatedAt" :> 1 @@ "category" :> kind[2]
        @@ "price" :> kind[1])

MaxRecords == 3

QueryStores ==
  UNION {{[i \in 1..n |-> [k |-> i, v |-> QueryRecord(i, ks[i])]] :
            ks \in [1..n -> QueryKinds]} : n \in 0..MaxRecords}

OperatorObjects ==
  {("$eq" :> 10), ("$ne" :> 10), ("$gt" :> 10), ("$gte" :> 20), ("$lt" :> 20),
   ("$lte" :> 10), ("$in" :> {10, 30}), ("$nin" :> {10, 30})}

QueryFilters ==
  {<<[field |-> "price", value |-> [lit |-> 10]]>>,
   <<[field |-> "price", value |-> NullLiteral]>>,
   <<[field |-> "category", value |-> [lit |-> 1]],
     [field |-> "price", value |-> [ops |-> ("$gte" :> 20)]]>>,
   <<[field |-> "category", value |-> [lit |-> 2]],
     [field |-> "price", value |-> NullLiteral]>>}
  \cup {<<[field |-> "price", value |-> [ops |-> f]]>> : f \in OperatorObjects}

QuerySorts ==
  {("sortBy" :> "price"), ("sortBy" :> "price" @@ "sortOrder" :> "desc"),
   ("sortBy" :> "category" @@ "sortOrder" :> "desc")}

QueryPages ==
  {EmptyRec, ("page" :> 2 @@ "limit" :> 1), ("page" :> 1 @@ "limit" :> 2),
   ("page" :> 3 @@ "limit" :> 2)}

SortedFilter == <<[field |-> "price", value |-> [ops |-> ("$lte" :> 10)]]>>

\* list options: pages and orders of the whole store, filters alone, and one
\* filter under every order
QueryInputs ==
  {Spread(pg, so) : pg \in QueryPages, so \in {EmptyRec} \cup QuerySorts}
  \cup {("filter" :> f) : f \in QueryFilters}
  \cup {Spread(("limit" :> 1 @@ "filter" :> SortedFilter), so) : so \in QuerySorts}

InitQuery ==
  /\ registry = <<"users">>
  /\ seedCount = [c \in Collections |-> 0]
  /\ data \in {[c \in Collections |-> IF c = "users" THEN m ELSE <<>>] :
                 m \in QueryStores}
  /\ initialized = [c \in Collections |-> c = "users"]
  /\ isInitializingAll = FALSE
  /\ mode = "memory"
  /\ config = DefaultConfig
  /\ disk = [c \in Collections |-> <<>>]
  /\ now = 1
  /\ nextId = 1
  /\ seedRuns = [c \in Collections |-> 0]
  /\ tk = [t \in Tasks |-> NoTask]
  /\ out = Quiet

NextQuery ==
  \E t \in Tasks :
    \/ Call(t, InitOps)
    \/ Enter(t)
    \/ BodyOf(t, QueryInputs)

SpecQuery == InitQuery /\ [][NextQuery]_vars

\* two related collections, both initialized, posts answering under an
\* item-level response schema
User(price) ==
  IF price = 0 THEN ("id" :> 1 @@ "createdAt" :> 1 @@ "updatedAt" :> 1)
  ELSE ("id" :> 1 @@ "createdAt" :> 1 @@ "updatedAt" :> 1 @@ "price" :> price)

Post(price) ==
  IF price = 0 THEN ("id" :> 2 @@ "createdAt" :> 1 @@ "updatedAt" :> 1 @@ "userId" :> 1)
  ELSE ("id" :> 2 @@ "createdAt" :> 1 @@ "updatedAt" :> 1 @@ "userId" :> 1
        @@ "price" :> price)

ShapeStores ==
  {[c \in Collections |-> IF c = "users" THEN us ELSE <<[k |-> 2, v |-> Post(p)]>>] :
     us \in {<<>>} \cup {<<[k |-> 1, v |-> User(q)]>> : q \in {0, 10}},
     p \in {0, 10}}

ItemSchemas ==
  {ObjectSchema(<<Field("id", "uuid"), Field("price", "number")>>),
   ObjectSchema(<<>>),
   ObjectSchema(<<Field("id", "uuid"), Field("userId", "uuid"),
                  JoinField("userPrice", "user", "price")>>)}

ShapeConfigs ==
  {[DefaultConfig EXCEPT
      !.listSchema = NoSchema,
      !.responseSchema = [c \in Collections |-> IF c = "posts" THEN sch ELSE NoSchema]] :
     sch \in ItemSchemas}

InitShape ==
  /\ registry = <<"users", "posts">>
  /\ seedCount = [c \in Collections |-> 0]
  /\ data \in ShapeStores
  /\ initialized = [c \in Collections |-> TRUE]
  /\ isInitializingAll = FALSE
  /\ mode = "memory"
  /\ config \in ShapeConfigs
  /\ disk = [c \in Collections |-> <<>>]
  /\ now = 1
  /\ nextId = 3
  /\ seedRuns = [c \in Collections |-> 0]
  /\ tk = [t \in Tasks |-> NoTask]
  /\ out = Quiet

ShapeOps == {"list", "get", "create", "update", "replace", "delete"}

NextShape ==
  \E t \in Tasks :
    \/ Call(t, ShapeOps)
    \/ Enter(t)
    \/ Body(t)
    \/ OpPersist(t)

SpecShape == InitShape /\ [][NextShape]_vars

\* one collection in local mode over a persistence layer whose calls may
\* fail, with or without a persisted list
Persisted == <<("id" :> 80 @@ "createdAt" :> 1 @@ "updatedAt" :> 1 @@ "price" :> 10)>>

InitPersist ==
  /\ registry = <<"users">>
  /\ seedCount = [c \in Collections |-> IF c = "users" THEN MaxSeed ELSE 0]
  /\ data = [c \in Collections |-> <<>>]
  /\ initialized = [c \in Collections |-> FALSE]
  /\ isInitializingAll = FALSE
  /\ mode = "local"
  /\ config = [DefaultConfig EXCEPT !.faults = {"persistence"}]
  /\ disk \in {[c \in Collections |-> IF c = "users" THEN d ELSE <<>>] :
                 d \in {<<>>, Persisted}}
  /\ now = 1
  /\ nextId = 1
  /\ seedRuns = [c \in Collections |-> 0]
  /\ tk = [t \in Tasks |-> NoTask]
  /\ out = Quiet

PersistOps == {"list", "create", "update", "delete", "clear"}

NextPersist ==
  \E t \in Tasks :
    \/ Call(t, PersistOps)
    \/ Enter(t)
    \/ PassStart(t)
    \/ PassLoad(t)
    \/ SeedSet(t)
    \/ SeedPersist(t)
    \/ PassSeeded(t)
    \/ Fallback(t)
    \/ Body(t)
    \/ OpPersist(t)

SpecPersist == InitPersist /\ [][NextPersist]_vars

\* two related collections seeded through the AI generator, which may fail
GenerateModes == {"ai", "auto"}

InitSeed ==
  /\ registry = <<"users", "posts">>
  /\ seedCount = [c \in Collections |-> MaxSeed]
  /\ data = [c \in Collections |-> <<>>]
  /\ initialized = [c \in Collections |-> FALSE]
  /\ isInitializingAll = FALSE
  /\ mode = "memory"
  /\ config \in {[DefaultConfig EXCEPT !.generateMode = g, !.faults = {"ai"}] :
                   g \in GenerateModes}
  /\ disk = [c \in Collections |-> <<>>]
  /\ now = 1
  /\ nextId = 1
  /\ seedRuns = [c \in Collections |-> 0]
  /\ tk = [t \in Tasks |-> NoTask]
  /\ out = Quiet

NextSeed ==
  \E t \in Tasks :
    \/ Call(t, InitOps)
    \/ Enter(t)
    \/ PassStart(t)
    \/ PassLoad(t)
    \/ SeedSet(t)
    \/ SeedRejected(t)
    \/ SeedPersist(t)
    \/ PassSeeded(t)
    \/ Fallback(t)
    \/ Body(t)

SpecSeed == InitSeed /\ [][NextSeed]_vars

\* one collection seeded by faker, with and without a configured faker seed
DefaultSeedCount == 10

\* normalizeConfig: seedCount ?? 10 (configured: <<n>>, <<>> when undefined)
SeedCountOf(configured) ==
  IF configured = <<>> THEN DefaultSeedCount ELSE configured[1]

FakerSeedCounts == {SeedCountOf(x) : x \in {<<>>, <<0>>, <<MaxSeed + 1>>}}

FakerSeeds == {<<>>, <<7>>}

InitFaker ==
  /\ registry = <<>>
  /\ seedCount = [c \in Collections |-> 0]
  /\ data = [c \in Collections |-> <<>>]
  /\ initialized = [c \in Collections |-> FALSE]
  /\ isInitializingAll = FALSE
  /\ mode = "memory"
  /\ config \in {[DefaultConfig EXCEPT !.fakerSeed = x] : x \in FakerSeeds}
  /\ disk = [c \in Collections |-> <<>>]
  /\ now = 1
  /\ nextId = 1
  /\ seedRuns = [c \in Collections |-> 0]
  /\ tk = [t \in Tasks |-> NoTask]
  /\ out = Quiet

NextFaker ==
  \/ DefineCollection("users", FakerSeedCounts)
  \/ \E t \in Tasks :
       \/ Call(t, InitOps)
       \/ Enter(t)
       \/ PassStart(t)
       \/ PassLoad(t)
       \/ SeedSet(t)
       \/ SeedPersist(t)
       \/ PassSeeded(t)
       \/ Fallback(t)
       \/ Body(t)

SpecFaker == InitFaker /\ [][NextFaker]_vars

\* collections defined and defined again while their stores are in use
DefineCounts == 0..MaxSeed

NextDefine ==
  \/ \E c \in Collections : Define(c, DefineCounts)
  \/ \E t \in Tasks :
       \/ Call(t, InitOps)
       \/ Enter(t)
       \/ PassStart(t)
       \/ PassLoad(t)
       \/ SeedSet(t)
       \/ SeedPersist(t)
       \/ PassSeeded(t)
       \/ Fallback(t)
       \/ Body(t)

SpecDefine == Init /\ [][NextDefine]_vars

\* one seeded collection with hooks and configured errors, mutations only
HookKinds == {"absent", "rewrite", "reject"}

ErrorLists ==
  {<<>>,
   <<[code |-> 400, failNow |-> FALSE, failIf |-> "expensive"]>>,
   <<[code |-> 400, failNow |-> FALSE, failIf |-> "expensive"],
     [code |-> 503, failNow |-> TRUE, failIf |-> "none"]>>}

HookConfigs ==
  {[DefaultConfig EXCEPT !.hooks = [before |-> b, after |-> "run"], !.errors = <<>>] :
     b \in HookKinds}
  \cup {[DefaultConfig EXCEPT !.errors = e] : e \in ErrorLists}
  \cup {[DefaultConfig EXCEPT !.hooks = [before |-> "rewrite", after |-> a],
                              !.errors = e] :
          a \in {"run", "reject"}, e \in ErrorLists}

InitHooks ==
  /\ registry = <<"users">>
  /\ seedCount = [c \in Collections |-> IF c = "users" THEN 1 ELSE 0]
  /\ data = [c \in Collections |-> <<>>]
  /\ initialized = [c \in Collections |-> FALSE]
  /\ isInitializingAll = FALSE
  /\ mode = "memory"
  /\ config \in HookConfigs
  /\ disk = [c \in Collections |-> <<>>]
  /\ now = 1
  /\ nextId = 1
  /\ seedRuns = [c \in Collections |-> 0]
  /\ tk = [t \in Tasks |-> NoTask]
  /\ out = Quiet

NextHooks ==
  \E t \in Tasks :
    \/ Invoke(t, HookedOps, CreateInputs)
    \/ Enter(t)
    \/ PassStart(t)
    \/ PassLoad(t)
    \/ SeedSet(t)
    \/ SeedPersist(t)
    \/ PassSeeded(t)
    \/ Fallback(t)
    \/ Lookup(t)
    \/ Execute(t)
    \/ Return(t)

SpecHooks == InitHooks /\ [][NextHooks]_vars

\* one collection defined with an operations config; a single caller calls
\* one of the methods the collection object has
OperationValues ==
  {Undefined, Boolean(TRUE), Boolean(FALSE), NullValue, Object(EmptyRec),
   Object(("enabled" :> 0)), Object(("enabled" :> 1))}

OperationConfigs ==
  {[o \in OperationNames |-> IF o = a THEN v ELSE IF o = "delete" THEN w ELSE Undefined] :
     a \in OperationNames, v \in OperationValues, w \in OperationValues}

InitOperations ==
  /\ registry = <<"users">>
  /\ seedCount = [c \in Collections |-> IF c = "users" THEN 1 ELSE 0]
  /\ data = [c \in Collections |-> <<>>]
  /\ initialized = [c \in Collections |-> FALSE]
  /\ isInitializingAll = FALSE
  /\ mode = "memory"
  /\ config \in {[DefaultConfig EXCEPT !.operations = ops] : ops \in OperationConfigs}
  /\ disk = [c \in Collections |-> <<>>]
  /\ now = 1
  /\ nextId = 1
  /\ seedRuns = [c \in Collections |-> 0]
  /\ tk = [t \in Tasks |-> NoTask]
  /\ out = Quiet

NextOperations ==
  \E t \in {1} :
    \/ Call(t, Methods(config.operations))
    \/ Enter(t)
    \/ PassStart(t)
    \/ PassLoad(t)
    \/ SeedSet(t)
    \/ SeedPersist(t)
    \/ PassSeeded(t)
    \/ Fallback(t)
    \/ Body(t)
    \/ OpPersist(t)

SpecOperations == InitOperations /\ [][NextOperations]_vars

\* one seeded collection, mutations only, creates with and without an id of
\* the caller's
StampInputs == {("price" :> 10), ("id" :> 90 @@ "price" :> 20)}

NextStamps ==
  \E t \in Tasks :
    \/ Invoke(t, Mutations, StampInputs)
    \/ Enter(t)
    \/ PassStart(t)
    \/ PassLoad(t)
    \/ SeedSet(t)
    \/ SeedPersist(t)
    \/ PassSeeded(t)
    \/ Fallback(t)
    \/ Lookup(t)
    \/ Execute(t)
    \/ Return(t)

SpecStamps == InitPersist /\ [][NextStamps]_vars

\* the two related collections, defined in either order before any call
Registries == {<<"users", "posts">>, <<"posts", "users">>}

InitOrder ==
  /\ registry \in Registries
  /\ seedCount = [c \in Collections |-> MaxSeed]
  /\ data = [c \in Collections |-> <<>>]
  /\ initialized = [c \in Collections |-> FALSE]
  /\ isInitializingAll = FALSE
  /\ mode \in Modes
  /\ config = DefaultConfig
  /\ disk = [c \in Collections |-> <<>>]
  /\ now = 1
  /\ nextId = 1
  /\ seedRuns = [c \in Collections |-> 0]
  /\ tk = [t \in Tasks |-> NoTask]
  /\ out = Quiet

NextOrder ==
  \E t \in Tasks :
    \/ Call(t, InitOps)
    \/ Enter(t)
    \/ PassStart(t)
    \/ PassLoad(t)
    \/ SeedSet(t)
    \/ SeedPersist(t)
    \/ PassSeeded(t)
    \/ Fallback(t)
    \/ Body(t)

SpecOrder == InitOrder /\ [][NextOrder]_vars

\* users alone or with posts, fresh stores; relation methods called while
\* records are replaced and deleted
RelatedRegistries == {<<"users">>, <<"users", "posts">>}

RelatedOps == {"replace", "delete"}

InitRelated ==
  /\ registry \in RelatedRegistries
  /\ seedCount = [c \in Collections |-> MaxSeed]
  /\ data = [c \in Collections |-> <<>>]
  /\ initialized = [c \in Collections |-> FALSE]
  /\ isInitializingAll = FALSE
  /\ mode = "memory"
  /\ config = DefaultConfig
  /\ disk = [c \in Collections |-> <<>>]
  /\ now = 1
  /\ nextId = 1
  /\ seedRuns = [c \in Collections |-> 0]
  /\ tk = [t \in Tasks |-> NoTask]
  /\ out = Quiet

NextRelated ==
  \E t \in Tasks :
    \/ CallRelation(t)
    \/ Invoke(t, RelatedOps, CreateInputs)
    \/ Enter(t)
    \/ PassStart(t)
    \/ PassLoad(t)
    \/ SeedSet(t)
    \/ SeedPersist(t)
    \/ PassSeeded(t)
    \/ Fallback(t)
    \/ Lookup(t)
    \/ Execute(t)
    \/ Return(t)
    \/ RelationBody(t)

SpecRelated == InitRelated /\ [][NextRelated]_vars

\* one collection that may start initialized and seeded by an earlier call,
\* cleared, listed and added to by the tasks
ClearSeeds == generateSeedData("users", EmptyRec, MaxSeed, 1, 1)

ClearOps == {"list", "create", "clear"}

InitClear ==
  /\ registry = <<"users">>
  /\ seedCount = [c \in Collections |-> IF c = "users" THEN MaxSeed ELSE 0]
  /\ isInitializingAll = FALSE
  /\ mode \in Modes
  /\ config = DefaultConfig
  /\ now = 1
  /\ tk = [t \in Tasks |-> NoTask]
  /\ out = Quiet
  /\ \/ /\ initialized = [c \in Collections |-> FALSE]
        /\ data = [c \in Collections |-> <<>>]
        /\ disk = [c \in Collections |-> <<>>]
        /\ nextId = 1
        /\ seedRuns = [c \in Collections |-> 0]
     \/ \E s \in ClearSeeds :
          /\ initialized = [c \in Collections |-> c = "users"]
          /\ data = [c \in Collections |->
                       IF c = "users" THEN MapSetAll(<<>>, s) ELSE <<>>]
          /\ disk = [c \in Collections |->
                       IF c = "users" /\ mode = "local" THEN s ELSE <<>>]
          /\ nextId = 1 + MaxSeed * Slots("users")
          /\ seedRuns = [c \in Collections |-> IF c = "users" THEN 1 ELSE 0]

NextClear ==
  \E t \in Tasks :
    \/ Call(t, ClearOps)
    \/ Enter(t)
    \/ PassStart(t)
    \/ PassLoad(t)
    \/ SeedSet(t)
    \/ SeedPersist(t)
    \/ PassSeeded(t)
    \/ Fallback(t)
    \/ Body(t)
    \/ OpPersist(t)

SpecClear == InitClear /\ [][NextClear]_vars

\* the populated store queried with operator objects that carry two operators
RangeObjects ==
  {("$gt" :> 5 @@ "$lt" :> 15), ("$gte" :> 10 @@ "$lte" :> 10),
   ("$ne" :> 10 @@ "$in" :> {10, 20}), ("$gt" :> 10 @@ "$nin" :> {20})}

RangeInputs == {("filter" :> <<[field |-> "price", value |-> [ops |-> f]]>>) :
                  f \in RangeObjects}

NextRange ==
  \E t \in Tasks :
    \/ Call(t, InitOps)
    \/ Enter(t)
    \/ BodyOf(t, RangeInputs)

SpecRange == InitQuery /\ [][NextRange]_vars

\* the populated store read through exists, count and toArray
InspectOps == {"exists", "count", "toArray"}

CountInputs == {EmptyRec} \cup {("filter" :> f) : f \in QueryFilters}

Inspections(o, m) ==
  CASE o = "exists" -> {[arg |-> ("id" :> id), ret |-> exists(m, id)] : id \in IdInputs(m)}
    [] o = "count" -> {[arg |-> opt, ret |-> count(m, opt)] : opt \in CountInputs}
    [] o = "toArray" -> {[arg |-> EmptyRec, ret |-> toArray(m)]}

\* the synchronous part of exists / count / toArray after `await this.initialize()`
Inspect(t) ==
  /\ tk[t].pc = "body"
  /\ tk[t].op \in InspectOps
  /\ \E r \in Inspections(tk[t].op, data[tk[t].col]) :
       out' = [step |-> "inspected", task |-> t, op |-> tk[t].op, col |-> tk[t].col,
               arg |-> r.arg, sret |-> r.ret]
  /\ tk' = [tk EXCEPT ![t].pc = "done"]
  /\ UNCHANGED <<registry, seedCount, data, initialized, isInitializingAll, mode, config,
                 disk, now, nextId, seedRuns>>

NextInspect ==
  \E t \in Tasks :
    \/ Call(t, InspectOps)
    \/ Enter(t)
    \/ Inspect(t)

SpecInspect == InitQuery /\ [][NextInspect]_vars

\* two related collections, uninitialized, whose overlapping callers list
\* and clear; every awaited call of a task eventually returns (by
\* value, or by exception where the configuration lets the generator fail)
LiveOps == {"list", "clear"}

LiveLists == {EmptyRec}

LiveConfigs ==
  {DefaultConfig, [DefaultConfig EXCEPT !.generateMode = "ai", !.faults = {"ai"}]}

InitLive ==
  /\ registry = <<"users", "posts">>
  /\ seedCount = [c \in Collections |-> MaxSeed]
  /\ data = [c \in Collections |-> <<>>]
  /\ initialized = [c \in Collections |-> FALSE]
  /\ isInitializingAll = FALSE
  /\ mode \in Modes
  /\ config \in LiveConfigs
  /\ disk = [c \in Collections |-> <<>>]
  /\ now = 1
  /\ nextId = 1
  /\ seedRuns = [c \in Collections |-> 0]
  /\ tk = [t \in Tasks |-> NoTask]
  /\ out = Quiet

\* the next step of a task that has made its call
Continue(t) ==
  \/ Enter(t)
  \/ PassStart(t)
  \/ PassLoad(t)
  \/ SeedSet(t)
  \/ SeedRejected(t)
  \/ SeedPersist(t)
  \/ PassSeeded(t)
  \/ Fallback(t)
  \/ BodyOf(t, LiveLists)
  \/ OpPersist(t)

NextLive == \E t \in Tasks : Call(t, LiveOps) \/ Continue(t)

SpecLive == InitLive /\ [][NextLive]_vars /\ \A t \in Tasks : WF_vars(Continue(t))

\* =================================================================== claims
Records(c) == MapValues(data[c])

\* the step just taken was the synchronous part of store method o
Ran(o) == out.step = "body" /\ out.op = o

\* ------------------------------------------------------------------- C1
ForeignKeysResolve ==
  \A c \in SeqToSet(registry) : \A r \in BelongsTo(c) :
    Registered(r.collection) =>
      \A i \in 1..Len(data[c]) :
        /\ Has(data[c][i].v, r.foreignKey)
        /\ data[c][i].v[r.foreignKey] \in MapKeys(data[r.collection])

\* C1: when a coordinated initialization pass returns, having itself
\* initialized every registered collection, every record of a collection with
\* a belongsTo relation on field F to collection C carries in F the id of a
\* record that C's store holds then.
C1_ForeignKeysAfterPass ==
  (out.step = "pass_end" /\ DOMAIN out.availableIds = SeqToSet(registry)) =>
    ForeignKeysResolve

\* ------------------------------------------------------------------- C2
\* C2: with only list() calls made, however they overlap, a store holds the
\* records of one seeding at most: never more than seedCount records.
C2_SeededOnce ==
  \A c \in Collections : Len(data[c]) <= seedCount[c]

\* ------------------------------------------------------------------- C3
\* the finished creates that left the id to the store
Creates == {t \in Tasks : tk[t].pc = "done" /\ tk[t].op = "create" /\ tk[t].given = 0}

\* C3: creates that pass no id all return a record, their ids are pairwise
\* distinct, and when every task was such a create on a collection of
\* seedCount 0 the store holds exactly their records, one per task.
C3_ConcurrentCreates ==
  /\ \A t \in Creates : tk[t].rid # 0
  /\ \A t, u \in Creates : t # u => tk[t].rid # tk[u].rid
  /\ (Creates = Tasks /\ seedCount["users"] = 0) =>
       /\ Len(data["users"]) = Cardinality(Tasks)
       /\ MapKeys(data["users"]) = {tk[t].rid : t \in Tasks}

\* every task was a create on the empty collection, and the creates overlapped
\* before initialization had completed (more than one of them ran the seeding)
C3_Witness ==
  /\ Creates = Tasks
  /\ seedCount["users"] = 0
  /\ seedRuns["users"] >= 2

\* ------------------------------------------------------------------- C4
AggregateTypes == {"avg:price", "sum:price", "min:price", "max:price", "count:price:10"}

Matching(c, options) ==
  IF Has(options, "filter") THEN applyFilters(Records(c), options["filter"])
  ELSE Records(c)

\* C4: the aggregate meta fields of a list response equal the aggregates of
\* all the records of the collection that match the query's filter, whatever
\* page and limit were requested.
C4_AggregatesOverAllMatches ==
  (Ran("list") /\ out.ret # None) =>
    \A ty \in AggregateTypes :
      out.ret.response.meta[ty]
        = calculateMetaField(ty, Matching(out.col, out.arg), out.sret.pagination)

\* ------------------------------------------------------------------- C5
\* the fields the caller of update / replace cannot set
Kept == {"id", "createdAt"}

\* the record a create just stored and the fields the caller supplied
Created == out.sret.item

\* the supplied fields are in the stored record, which has the three stamped
\* fields besides, and findById of the returned id gives that record
ReadsBack ==
  /\ out.sret.kind = "item"
  /\ DOMAIN Created = DOMAIN out.arg \cup StampedFields
  /\ \A f \in DOMAIN out.arg \ StampedFields : Created[f] = out.arg[f]
  /\ findById(data[out.col], Created["id"]) = Item(Created)

\* the page of the unsorted, unfiltered listing on which a stored id lies
PageOf(m, id) == ((MapIndex(m, id) - 1) \div DefaultLimit) + 1

RanOnExisting(o) == Ran(o) /\ MapHas(out.pre, out.arg["id"])

Before == MapGet(out.pre, out.arg["id"])
After  == MapGet(data[out.col], out.arg["id"])

\* only the record of the id changed, and the method returned its new value
OnlyThatRecord ==
  /\ MapHas(data[out.col], out.arg["id"])
  /\ data[out.col] = MapSet(out.pre, out.arg["id"], After)
  /\ out.sret = Item(After)

\* C6 as stated: update(id, partial) stores and returns the existing record
\* shallow-merged with partial; every field not named in partial keeps its
\* previous value; id and createdAt keep their original values.
C6_UpdateMergesAsStated ==
  RanOnExisting("update") =>
    /\ OnlyThatRecord
    /\ After["id"] = Before["id"] /\ After["createdAt"] = Before["createdAt"]
    /\ \A f \in DOMAIN After \ DOMAIN out.arg["data"] :
         Has(Before, f) /\ After[f] = Before[f]
    /\ \A f \in DOMAIN out.arg["data"] \ Kept :
         Has(After, f) /\ After[f] = out.arg["data"][f]

\* C6: update(id, partial) stores and returns the existing record
\* shallow-merged with partial, except that id and createdAt keep their
\* original values and updatedAt becomes the time of the update; every other
\* field not named in partial keeps its previous value.
C6_UpdateMerges ==
  RanOnExisting("update") =>
    /\ OnlyThatRecord
    /\ After["id"] = Before["id"] /\ After["createdAt"] = Before["createdAt"]
    /\ After["updatedAt"] = now
    /\ DOMAIN After = DOMAIN Before \cup DOMAIN out.arg["data"] \cup {"updatedAt"}
    /\ \A f \in DOMAIN After \ (DOMAIN out.arg["data"] \cup {"updatedAt"}) :
         After[f] = Before[f]
    /\ \A f \in DOMAIN out.arg["data"] \ StampedFields : After[f] = out.arg["data"][f]

\* an update whose partial tried to override id and createdAt, at a later time
\* than the record's last write
C6_Witness ==
  /\ RanOnExisting("update")
  /\ Truthy(out.arg["data"], "id") /\ out.arg["data"]["id"] # out.arg["id"]
  /\ Truthy(out.arg["data"], "createdAt")
  /\ out.arg["data"]["createdAt"] # Before["createdAt"]
  /\ Before["updatedAt"] # now

\* ------------------------------------------------------------------- C7
\* C7 as stated: replace(id, full) keeps id and createdAt; every other stored
\* field is exactly that of the payload, absent fields being dropped.
C7_ReplaceAsStated ==
  RanOnExisting("replace") =>
    /\ OnlyThatRecord
    /\ After["id"] = Before["id"] /\ After["createdAt"] = Before["createdAt"]
    /\ \A f \in DOMAIN After \ Kept :
         Has(out.arg["data"], f) /\ After[f] = out.arg["data"][f]
    /\ \A f \in DOMAIN out.arg["data"] : Has(After, f)

\* C7: replace(id, full) keeps id and createdAt and sets updatedAt to the
\* time of the replace, whatever the payload carries for them; every other
\* stored field is exactly that of the payload, absent fields being dropped.
C7_Replace ==
  RanOnExisting("replace") =>
    /\ OnlyThatRecord
    /\ After["id"] = Before["id"] /\ After["createdAt"] = Before["createdAt"]
    /\ After["updatedAt"] = now
    /\ DOMAIN After = DOMAIN out.arg["data"] \cup StampedFields
    /\ \A f \in DOMAIN out.arg["data"] \ StampedFields : After[f] = out.arg["data"][f]

\* a replace whose payload lacked a field the record had, and one whose
\* payload carried another id and createdAt
C7_Witness ==
  /\ RanOnExisting("replace")
  /\ \/ DOMAIN Before \ (DOMAIN out.arg["data"] \cup StampedFields) # {}
     \/ /\ Truthy(out.arg["data"], "id") /\ out.arg["data"]["id"] # out.arg["id"]
        /\ Truthy(out.arg["data"], "createdAt")
        /\ out.arg["data"]["createdAt"] # Before["createdAt"]

\* ------------------------------------------------------------------- C8
\* C8: delete(id) returns true iff the store held id, removes that record and
\* no other; afterwards findById(id) is not-found and delete(id) returns false.
C8_Delete ==
  Ran("delete") =>
    LET id == out.arg["id"]
        m  == data[out.col]
    IN /\ out.sret = Bool(MapHas(out.pre, id))
       /\ MapKeys(m) = MapKeys(out.pre) \ {id}
       /\ \A k \in MapKeys(m) : MapGet(m, k) = MapGet(out.pre, k)
       /\ MapKeyList(m) = SelectSeq(MapKeyList(out.pre), LAMBDA k : k # id)
       /\ findById(m, id) = Null
       /\ delete(m, id).ret = Bool(FALSE)
       /\ delete(m, id).data = m

\* a delete of a record among others
C8_Witness ==
  /\ Ran("delete")
  /\ MapHas(out.pre, out.arg["id"])
  /\ Len(out.pre) >= 2

\* ------------------------------------------------------------------- C9
LookupOps == {"get", "update", "replace"}

\* C9: get, update and replace with an id the store does not hold reject with
\* a not-found error naming the collection and the id, and change no record.
C9_NotFound ==
  \A o \in LookupOps :
    (Ran(o) /\ ~MapHas(out.pre, out.arg["id"])) =>
      /\ out.ret = NotFound(out.col, out.arg["id"])
      /\ data[out.col] = out.pre
      /\ tk[out.task].pc = "done"

\* an update of an id missing from a store that holds records
C9_Witness ==
  /\ Ran("update")
  /\ ~MapHas(out.pre, out.arg["id"])
  /\ Len(out.pre) >= 1

\* ------------------------------------------------------------------ C10
\* C10: the facade's delete with an id the store does not hold settles with a
\* not-found error.
C10_DeleteNotFound ==
  (Ran("delete") /\ ~MapHas(out.pre, out.arg["id"]) /\ out.ret # None) =>
    out.ret.kind = "error"

\* ------------------------------------------------------------------ C11
\* the list call just made returned a page (it was not rejected)
Listed == Ran("list") /\ out.sret # TypeError

\* the orders the query may have put the matching records in
Orders(items, options) ==
  IF Has(options, "sortBy")
  THEN applySorting(items, options["sortBy"],
                    IF Has(options, "sortOrder") THEN options["sortOrder"] ELSE "asc")
  ELSE {items}

\* the data of page p of the same query
PageData(items, options, p) == Paginate(items, Spread(options, ("page" :> p))).data

RECURSIVE ConcatPages(_, _, _)
\* the data of pages 1..p, concatenated
ConcatPages(items, options, p) ==
  IF p = 0 THEN <<>>
  ELSE ConcatPages(items, options, p - 1) \o PageData(items, options, p)

IsPermutation(s, r) ==
  /\ Len(s) = Len(r)
  /\ \E f \in Permutations(1..Len(r)) : \A i \in 1..Len(r) : s[i] = r[f[i]]

\* C11: a list call on a store with N records matching the filter, under
\* limit L (20 when none is passed), reports total = N and totalPages =
\* ceil(N / L); the page it returns is a page of the sorted matching records,
\* and the pages 1..totalPages of that order, concatenated, are every matching
\* record exactly once, in that order.
C11_Pagination ==
  Listed =>
    LET options  == out.arg
        matching == Matching(out.col, options)
        N == Len(matching)
        L == IF Truthy(options, "limit") THEN options["limit"] ELSE DefaultLimit
        pagination == out.sret.pagination
    IN /\ pagination.total = N
       /\ pagination.limit = L
       /\ pagination.totalPages * L >= N
       /\ (pagination.totalPages - 1) * L < N
       /\ \E sorted \in Orders(matching, options) :
            out.sret.data = PageData(sorted, options, pagination.page)
       /\ \A sorted \in Orders(matching, options) :
            /\ IsPermutation(sorted, matching)
            /\ ConcatPages(sorted, options, pagination.totalPages) = sorted

\* a sorted list returned the second of three pages
C11_Witness ==
  /\ Listed
  /\ Has(out.arg, "sortBy")
  /\ out.sret.pagination.page = 2
  /\ out.sret.pagination.totalPages = 3
  /\ Len(out.sret.data) = 1

\* ------------------------------------------------------------------ C12
\* what one filter entry asks of a record: strict equality with a literal (no
\* stored field is null), or the comparison of its operator (an operator
\* object of the inputs carries one operator)
Satisfies(item, e) ==
  LET f == e.field
  IN IF e.value = NullLiteral THEN FALSE
     ELSE IF "lit" \in DOMAIN e.value THEN Has(item, f) /\ item[f] = e.value.lit
     ELSE LET opr == CHOOSE o \in DOMAIN e.value.ops : TRUE
              v   == e.value.ops[opr]
          IN CASE opr = "$eq"  -> Has(item, f) /\ item[f] = v
               [] opr = "$ne"  -> ~Has(item, f) \/ item[f] # v
               [] opr = "$gt"  -> Has(item, f) /\ v < item[f]
               [] opr = "$gte" -> Has(item, f) /\ v <= item[f]
               [] opr = "$lt"  -> Has(item, f) /\ ~(v <= item[f])
               [] opr = "$lte" -> Has(item, f) /\ ~(v < item[f])
               [] opr = "$in"  -> Has(item, f) /\ \E w \in v : w = item[f]
               [] opr = "$nin" -> \A w \in v : Has(item, f) => w # item[f]

Filtered == Ran("list") /\ Has(out.arg, "filter") /\ ~Has(out.arg, "sortBy")

\* C12: a list call with a filter (first page, default limit, no sorting)
\* returns exactly the stored records that satisfy every entry of the filter:
\* strict equality for a literal, the named comparison for an operator.
C12_Filters ==
  (Filtered /\ ~Truthy(out.arg, "page") /\ ~Truthy(out.arg, "limit")) =>
    /\ out.sret # TypeError
    /\ out.sret.data =
         SelectSeq(MapValues(out.pre),
                   LAMBDA item : \A i \in 1..Len(out.arg["filter"]) :
                                   Satisfies(item, out.arg["filter"][i]))

\* the same, for the filters without a null literal
C12_FiltersWithoutNull ==
  (/\ Filtered /\ ~Truthy(out.arg, "page") /\ ~Truthy(out.arg, "limit")
   /\ \A i \in 1..Len(out.arg["filter"]) : out.arg["filter"][i].value # NullLiteral) =>
    /\ out.sret # TypeError
    /\ out.sret.data =
         SelectSeq(MapValues(out.pre),
                   LAMBDA item : \A i \in 1..Len(out.arg["filter"]) :
                                   Satisfies(item, out.arg["filter"][i]))

\* ------------------------------------------------------------------ C13
Sorted == Listed /\ Has(out.arg, "sortBy")

Descending == Has(out.arg, "sortOrder") /\ out.arg["sortOrder"] = "desc"

\* no record of s comes before one it should follow; a comparison with an
\* absent value holds in neither direction. Records of equal F (absent
\* on both included) are in the order they have in r.
InOrder(s, r, F) ==
  \A i, j \in 1..Len(s) :
    i < j =>
      /\ (Has(s[i], F) /\ Has(s[j], F)) =>
           IF Descending THEN s[i][F] >= s[j][F] ELSE s[i][F] <= s[j][F]
      /\ (Has(s[i], F) = Has(s[j], F) /\ (Has(s[i], F) => s[i][F] = s[j][F])) =>
           \E k, l \in 1..Len(r) : k < l /\ r[k] = s[i] /\ r[l] = s[j]

\* the returned page is a page of a permutation of the matching records that
\* is in order
ReturnedInOrder ==
  LET matching == Matching(out.col, out.arg)
  IN \E s \in Reorderings(matching) :
       /\ InOrder(s, matching, out.arg["sortBy"])
       /\ out.sret.data = PageData(s, out.arg, out.sret.pagination.page)

\* C13 as stated: under sortBy F the matching records are returned in a
\* permutation that is non-decreasing in F (non-increasing for desc), records
\* of equal F in their pre-sort order.
C13_SortedAsStated == Sorted => ReturnedInOrder

\* C13: that holds when every matching record has a value of F.
C13_Sorted ==
  (Sorted /\ \A i \in 1..Len(Matching(out.col, out.arg)) :
               Has(Matching(out.col, out.arg)[i], out.arg["sortBy"])) =>
    ReturnedInOrder

\* three priced records, two of them of equal price, listed by descending
\* price in an order that is not the stored one
C13_Witness ==
  /\ Sorted /\ Descending
  /\ out.arg["sortBy"] = "price"
  /\ Len(out.sret.data) = 3
  /\ \A i \in 1..3 : Has(out.sret.data[i], "price")
  /\ out.sret.data[2]["price"] = out.sret.data[3]["price"]
  /\ out.sret.data # MapValues(out.pre)

\* ------------------------------------------------------------------ C14
ProjectedOps == {"list", "get", "create", "update", "replace"}

\* a method of a collection with an object response schema just returned
\* records
Shaped ==
  /\ out.step \in {"body", "persisted"}
  /\ out.op \in ProjectedOps
  /\ out.ret # None
  /\ out.ret.kind \in {"item", "list"}
  /\ ResponseSchemaOf(out.op, out.col).schemaType = "object"
  /\ ~isResponseEnvelope(ResponseSchemaOf(out.op, out.col))

Declared ==
  LET shape == ResponseSchemaOf(out.op, out.col).shape
  IN {shape[i].key : i \in 1..Len(shape)}

\* the returned item has, of the record's fields, the declared ones and no
\* other, with the record's values, and no field that is not declared
Projects(item, record) ==
  /\ DOMAIN item \subseteq Declared
  /\ \A f \in DOMAIN record : Has(item, f) <=> f \in Declared
  /\ \A f \in DOMAIN record \cap Declared : item[f] = record[f]

ProjectsAll ==
  IF out.op = "list"
  THEN /\ Len(out.ret.response.data) = Len(out.sret.data)
       /\ \A i \in 1..Len(out.sret.data) :
            Projects(out.ret.response.data[i], out.sret.data[i])
  ELSE Projects(out.ret.item, out.sret.item)

Joined == Shaped /\ out.col = "posts" /\ "userPrice" \in Declared

\* the users whose id the record's foreign key holds, in the store as it is
Referenced(record) ==
  {u \in SeqToSet(Records("users")) : Has(record, "userId") /\ u["id"] = record["userId"]}

JoinResolves(item, record) ==
  /\ \A u \in Referenced(record) :
       IF Has(u, "price") THEN Has(item, "userPrice") /\ item["userPrice"] = u["price"]
       ELSE ~Has(item, "userPrice")
  /\ Referenced(record) = {} => ~Has(item, "userPrice")

\* C15: under a response schema with the join field userPrice over the
\* belongsTo relation user, every returned post carries in userPrice the price
\* of the user its userId names, as the users store holds it when the method
\* returns; without such a user the field is absent and the method returns
\* normally.
C15_JoinResolved ==
  Joined =>
    IF out.op = "list"
    THEN \A i \in 1..Len(out.sret.data) :
           JoinResolves(out.ret.response.data[i], out.sret.data[i])
    ELSE JoinResolves(out.ret.item, out.sret.item)

\* a post was returned with the price its user was updated to
C15_Witness ==
  /\ Joined
  /\ out.op = "get"
  /\ Has(out.ret.item, "userPrice")
  /\ out.ret.item["userPrice"] = 20

\* ------------------------------------------------------------------ C16
\* C16: over a persistence layer whose calls may fail, no caller gets a
\* persistence error; a mutation whose mirror did not write returns the
\* in-memory result and leaves the Map as the mutation made it; a failed load
\* of a persisted list loads nothing and the store goes on to be seeded as
\* one without persisted data; a failed bulk save of the seed leaves the store
\* initialized.
C16_PersistenceFailuresAbsorbed ==
  /\ (out.step \in {"thrown", "persisted"}) => out.ret # PersistenceError
  /\ (out.step = "persisted" /\ ~out.saved) =>
       /\ out.ret = Facade(out.op, out.col, out.arg, out.sret)
       /\ data[out.col] = out.pre
  /\ out.step = "load_failed" =>
       /\ data[out.col] = out.pre
       /\ tk[out.task].pc \in {"seed_set", "pass_seeded"}
       /\ tk[out.task].pc = "seed_set" => Len(tk[out.task].seed) = seedCount[out.col]
  /\ out.step = "seed_unsaved" =>
       /\ initialized[out.col]
       /\ tk[out.task].pc \in {"pass_seeded", "body"}

\* a create returned its record although neither the seed nor the record
\* reached the disk
C16_Witness ==
  /\ out.step = "persisted" /\ ~out.saved
  /\ out.op = "create"
  /\ out.ret.kind = "item"
  /\ MapHas(data[out.col], out.ret.item["id"])
  /\ disk[out.col] = <<>>
  /\ Len(data[out.col]) = MaxSeed + 1

\* ------------------------------------------------------------------ C17
\* C17: no caller of a collection method gets the error of a generator that
\* failed during seeding, and no coordinated pass ends on it with collections
\* still to go through.
C17_GeneratorFailureAbsorbed ==
  out.step = "thrown" => (out.ret # GenerationError /\ out.rest = <<>>)

\* ------------------------------------------------------------------ C18
\* C18: seed data is generated for a store once at most, and an initialized
\* store has no initialize() call about to put seed data into it.
C18_InitializeIdempotent ==
  \A c \in Collections :
    /\ seedRuns[c] <= 1
    /\ initialized[c] => \A t \in Tasks : ~(tk[t].pc = "seed_set" /\ Cur(t) = c)

\* ------------------------------------------------------------------ C19
\* C19: a store in memory mode that faker has seeded, once, and that only
\* list() was called on holds exactly seedCount records (the Map keeps their
\* ids distinct), whatever the configured faker seed.
C19_SeedCount ==
  \A c \in Collections :
    (initialized[c] /\ seedRuns[c] = 1) => Len(data[c]) = seedCount[c]

\* the same, without a configured faker seed
C19_SeedCountUnseeded ==
  \A c \in Collections :
    (initialized[c] /\ seedRuns[c] = 1 /\ config.fakerSeed = <<>>) =>
      Len(data[c]) = seedCount[c]

Mutating == out.step = "body" /\ out.ret = None

Succeeded ==
  /\ out.step \in {"body", "persisted"}
  /\ out.ret # None
  /\ ~(out.op \in {"update", "replace"} /\ out.sret = Null)
  /\ out.ret # PersistenceError

HookRejected == out.step = "rejected" /\ out.ret = HookError

\* what the before-hook of the configuration returns for the caller's data
HookReturn(d) ==
  IF config.hooks.before = "rewrite" THEN Spread(d, ("price" :> HookPrice)) ELSE d

\* the record r holds the fields of d that the store does not set itself
Stores(r, d) == \A f \in DOMAIN d \ StampedFields : Has(r, f) /\ r[f] = d[f]

\* C21: in create, update and delete with hooks configured, the before-hook
\* has run (once) and the after-hook has not when the store is mutated, and
\* both have run, once each and in that order, when the call ends; the record
\* stored by create and update carries what the before-hook returned; a call
\* whose before-hook throws ends with that error at a step that leaves the
\* store as it was, with no after-hook run and no store call to come.
C21_Hooks ==
  /\ (out.step \in {"body", "persisted"} /\ out.op \in HookedOps
        /\ config.hooks.before # "absent" /\ config.hooks.after # "absent") =>
       /\ Mutating => out.log = <<"before">>
       /\ Succeeded => out.log = <<"before", "after">>
       /\ (out.step = "body" /\ out.sret.kind = "item") =>
            /\ MapGet(data[out.col], out.sret.item["id"]) = out.sret.item
            /\ Stores(out.sret.item,
                      HookReturn(IF out.op = "create" THEN out.input
                                 ELSE out.input["data"]))
  /\ HookRejected =>
       /\ out.log = <<"before">>
       /\ data[out.col] = out.pre
       /\ tk[out.task].pc = "done"
  /\ \A t \in Tasks :
       \A e \in {"before", "after"} :
         Cardinality({i \in 1..Len(tk[t].log) : tk[t].log[i] = e}) <= 1

\* an update whose before-hook rewrote the caller's data ended, both hooks run
C21_Witness ==
  /\ out.step = "persisted"
  /\ out.op = "update"
  /\ config.hooks.before = "rewrite"
  /\ out.input["data"] # HookReturn(out.input["data"])
  /\ out.log = <<"before", "after">>
  /\ out.ret.kind = "item"

\* a delete of a stored record was rejected by its before-hook
C21_WitnessRejected ==
  /\ HookRejected
  /\ out.op = "delete"
  /\ MapHas(data[out.col], out.input["id"])

\* ------------------------------------------------------------------ C22
\* the configured errors that fire on an input: failNow, or a failIf that
\* holds for it
Fires(input) ==
  {i \in 1..Len(config.errors) :
     \/ config.errors[i].failNow
     \/ /\ config.errors[i].failIf = "expensive"
        /\ Has(input, "price")
        /\ input["price"] > 15}

FirstFiring(input) == CHOOSE i \in Fires(input) : \A j \in Fires(input) : i <= j

\* the record a delete is about, as the store held it when the errors were
\* checked
Stored == MapGet(out.pre, out.input["id"])

Disables(value) ==
  \/ value = Boolean(FALSE)
  \/ /\ value.t = "object"
     /\ Has(value.fields, "enabled")
     /\ value.fields["enabled"] = 0

\* C23: the collection object has the method of an operation iff the
\* configuration does not disable it, the endpoints map holds exactly those
\* operations, and every call made is a call of such a method.
C23_EnabledOperations ==
  /\ \A o \in OperationNames :
       o \in Methods(config.operations) <=> ~Disables(config.operations[o])
  /\ Endpoints(config.operations) = Methods(config.operations)
  /\ \A t \in Tasks :
       tk[t].op # "none" => ~Disables(config.operations[tk[t].op])

\* a call ended on a collection with one operation disabled by false and
\* another by { enabled: false }
C23_Witness ==
  /\ \E o \in OperationNames : config.operations[o] = Boolean(FALSE)
  /\ config.operations["delete"] = Object(("enabled" :> 0))
  /\ Methods(config.operations) # OperationNames
  /\ \E t \in Tasks : tk[t].pc = "done"

\* ------------------------------------------------------------------ C24
\* C24: an update of a stored record, update(id, {}) included, leaves the
\* record with an updatedAt strictly greater than the one it had, and an
\* update(id, {}) leaves every other field as it was.
C24_UpdatedAtIncreases ==
  RanOnExisting("update") =>
    /\ After["updatedAt"] > Before["updatedAt"]
    /\ out.arg["data"] = EmptyRec =>
         /\ DOMAIN After = DOMAIN Before
         /\ \A f \in DOMAIN After \ {"updatedAt"} : After[f] = Before[f]

\* ------------------------------------------------------------------ C25
\* C25: a call of insert, update, replace or delete leaves every record that
\* was stored before it and is stored after it with the createdAt it had.
C25_CreatedAtImmutable ==
  (out.step = "body" /\ out.op \in Mutations) =>
    \A id \in MapKeys(out.pre) \cap MapKeys(data[out.col]) :
      /\ Has(MapGet(data[out.col], id), "createdAt")
      /\ MapGet(data[out.col], id)["createdAt"] = MapGet(out.pre, id)["createdAt"]

\* the same for update, replace and delete, and for an insert whose id the
\* store did not hold
C25_CreatedAtKept ==
  (out.step = "body" /\ out.op \in Mutations
     /\ ~(out.op = "create" /\ MapHas(out.pre, out.sret.item["id"]))) =>
    \A id \in MapKeys(out.pre) \cap MapKeys(data[out.col]) :
      /\ Has(MapGet(data[out.col], id), "createdAt")
      /\ MapGet(data[out.col], id)["createdAt"] = MapGet(out.pre, id)["createdAt"]

\* ------------------------------------------------------------------ C26
\* the tasks whose coordinated pass is seeding a store by generation
Seeding == {t \in Tasks : tk[t].pc \in {"seed_set", "seed_persist"} /\ tk[t].order # <<>>}

\* C26: while a coordinated pass seeds a collection, every registered
\* collection that one belongs to has been initialized, and the ids the pass
\* gathered from it in availableIds are ids of records it holds.
C26_ParentsFirst ==
  \A t \in Seeding :
    \A p \in Parents(Head(tk[t].order), registry) :
      /\ initialized[p]
      /\ p \in DOMAIN tk[t].avail =>
           /\ tk[t].avail[p] # <<>>
           /\ SeqToSet(tk[t].avail[p]) \subseteq MapKeys(data[p])

\* a pass that seeded the parent is seeding the child, the child having been
\* registered first
C26_Witness ==
  /\ registry = <<"posts", "users">>
  /\ \E t \in Seeding :
       /\ Head(tk[t].order) = "posts"
       /\ "users" \in DOMAIN tk[t].avail
       /\ Len(data["users"]) > 0

\* ------------------------------------------------------------------ C27
\* a relation method just returned / just threw
RelationReturned == out.step = "body" /\ out.op = "relation"

RelationRejected == out.step = "rejected" /\ out.op = "relation"

\* the record carries the parent id in the relation's foreign key
Refers(r) == Has(r, out.arg.foreignKey) /\ r[out.arg.foreignKey] = out.input["id"]

\* C27: a relation method returns, once each, exactly the records the related
\* collection's store holds whose foreign-key field equals the parent id; it
\* throws, and never returns, when the related collection is not registered.
C27_RelationAccessor ==
  /\ RelationReturned =>
       /\ Registered(out.arg.collection)
       /\ out.col = out.arg.collection
       /\ \A r \in SeqToSet(Records(out.col)) : r \in SeqToSet(out.ret.items) <=> Refers(r)
       /\ \A i \in 1..Len(out.ret.items) :
            /\ out.ret.items[i] \in SeqToSet(Records(out.col))
            /\ \A j \in 1..Len(out.ret.items) :
                 out.ret.items[i] = out.ret.items[j] => i = j
  /\ RelationRejected =>
       /\ ~Registered(out.arg.collection)
       /\ out.ret = RelatedNotFound(out.arg.collection)
  /\ \A t \in Tasks :
       (tk[t].op = "relation" /\ ~Registered(tk[t].arg.collection)) => tk[t].pc = "done"

\* getPosts returned some of the posts and not others
C27_Witness ==
  /\ RelationReturned
  /\ out.col = "posts"
  /\ Len(out.ret.items) > 0
  /\ Len(out.ret.items) < Len(data["posts"])

\* ------------------------------------------------------------------ C28
\* the tasks inside initializeAllCollections, past the flag test
Passing == {t \in Tasks : tk[t].pc = "pass_start" \/ tk[t].order # <<>>}

\* the flag is set exactly while one task is inside a pass
OnePass ==
  /\ Cardinality(Passing) <= 1
  /\ isInitializingAll <=> Passing # {}

\* a call made while a pass is running leaves initializeAllCollections at
\* once, with no store loaded or seeded by it
LateCallReturns ==
  \A t \in Tasks :
    (tk[t].pc = "called" /\ tk'[t].pc # "called" /\ isInitializingAll
       /\ ~initialized[tk[t].col] /\ tk[t].op # "clear") =>
      /\ tk'[t].pc = "fallback"
      /\ tk'[t].order = <<>>
      /\ UNCHANGED <<data, initialized, disk, seedRuns, isInitializingAll>>

\* C28: at most one coordinated pass is in flight at any time, and a call of
\* initializeAllCollections made while a pass is running returns without
\* loading or seeding any collection.
C28_OnePassInFlight == []OnePass /\ [][LateCallReturns]_vars

\* a second caller has come back from initializeAllCollections while the
\* first one's pass is still loading a store
C28_Witness ==
  \E t, u \in Tasks :
    /\ tk[t].pc = "pass_load"
    /\ tk[u].pc = "fallback"
    /\ isInitializingAll
    /\ ~initialized[tk[u].col]

\* ------------------------------------------------------------------ C29
\* a pass just ended: it returned, or an exception left it
PassEnded == out.step = "pass_end" \/ (out.step = "thrown" /\ out.rest # <<>>)

\* the tasks whose pass ended on an exception
FailedPasses ==
  {t \in Tasks : tk[t].pc = "done" /\ tk[t].res = [kind |-> "failed", pass |-> TRUE]}

\* the flag is clear when a pass has just ended, and set only while a task is
\* inside a pass
FlagCleared ==
  /\ PassEnded => ~isInitializingAll
  /\ isInitializingAll => \E t \in Tasks : tk[t].pc = "pass_start" \/ tk[t].order # <<>>

\* a call on an uninitialized store that finds the flag clear starts a pass
Restarts ==
  \A t \in Tasks :
    (tk[t].pc = "called" /\ tk'[t].pc # "called" /\ ~isInitializingAll
       /\ ~initialized[tk[t].col] /\ tk[t].op # "clear") =>
      /\ tk'[t].pc = "pass_start"
      /\ isInitializingAll'

\* C29: the flag is clear whenever a pass has ended, by return or by
\* exception, and a call that then finds a store uninitialized starts a new
\* pass.
C29_FlagClearedOnExit == []FlagCleared /\ [][Restarts]_vars

\* after a pass that failed, another pass has returned, every collection
\* initialized and seeded
C29_Witness ==
  /\ out.step = "pass_end"
  /\ FailedPasses # {}
  /\ out.task \notin FailedPasses
  /\ \A c \in SeqToSet(registry) :
       initialized[c] /\ Len(data[c]) = seedCount[c] /\ c \in DOMAIN out.availableIds

\* ------------------------------------------------------------------ C30
\* no step resets a store's initialized flag
KeepsInitialized == \A c \in Collections : initialized[c] => initialized'[c]

\* clear() empties the Map and leaves every flag as it was
ClearEmpties ==
  \A t \in Tasks :
    (tk[t].pc = "body" /\ tk[t].op = "clear" /\ tk'[t].pc # "body") =>
      /\ data'[tk[t].col] = <<>>
      /\ initialized' = initialized

\* initialize() on an initialized store returns at once: no load, no seeding
FastPath ==
  \A t \in Tasks :
    (tk[t].pc = "called" /\ tk'[t].pc # "called" /\ initialized[tk[t].col]) =>
      /\ tk'[t].pc = "body"
      /\ data' = data
      /\ seedRuns' = seedRuns

\* a list over an empty Map answers with no item and total 0, and adds none
EmptyQuery ==
  (out.step = "body" /\ out.op = "list" /\ out.pre = <<>>) =>
    /\ out.sret.data = <<>>
    /\ out.sret.pagination.total = 0
    /\ data[out.col] = <<>>

\* no task is inside a pass or a fallback seeding
OutsidePass ==
  \A t \in Tasks : tk[t].pc \in {"idle", "called", "body", "op_persist", "done"}

\* once a store is initialized and no seeding is under way, its seed data is
\* never generated again
NoReseed ==
  \A c \in Collections : \A k \in 0..MaxTasks :
    []((initialized[c] /\ OutsidePass /\ seedRuns[c] = k) => [](seedRuns[c] = k))

\* C30: initialized never returns from true to false; clear() empties the
\* records and keeps the flag, so a later query on the cleared store answers
\* empty with total 0 and the store is not seeded again.
C30_ClearKeepsInitialized ==
  /\ [][KeepsInitialized /\ ClearEmpties /\ FastPath]_vars
  /\ []EmptyQuery
  /\ NoReseed

\* a list answered total 0 on an initialized store that a finished clear()
\* emptied, the store's seed data generated once and seedCount positive
C30_Witness ==
  /\ out.step = "body"
  /\ out.op = "list"
  /\ out.pre = <<>>
  /\ out.sret.pagination.total = 0
  /\ initialized[out.col]
  /\ seedCount[out.col] > 0
  /\ seedRuns[out.col] = 1
  /\ \E u \in Tasks : u # out.task /\ tk[u].pc = "done" /\ tk[u].op = "clear"

\* ------------------------------------------------------------------ C31
\* the pass of task t has just generated the seed list of a collection
SeedsInPass(t) == tk[t].pc = "pass_load" /\ tk'[t].pc = "seed_set"

\* the foreign keys of a seed list are ids the relation's target holds
SeedRefers(seed, r) ==
  \A i \in 1..Len(seed) :
    Has(seed[i], r.foreignKey) /\ seed[i][r.foreignKey] \in MapKeys(data[r.collection])

\* C31: when a pass seeds a collection by generation, every belongsTo relation
\* whose target is already initialized and holds records draws its foreign
\* keys from the target's current ids, whichever pass initialized the target.
C31_PoolFromInitializedTarget ==
  [][\A t \in Tasks :
       SeedsInPass(t) =>
         \A r \in BelongsTo(Head(tk[t].order)) :
           (Registered(r.collection) /\ initialized[r.collection]
              /\ data[r.collection] # <<>>) =>
             SeedRefers(tk'[t].seed, r)]_vars

\* ------------------------------------------------------------------ C32
\* the load that task t awaited returned a non-empty list, which initialized
\* the store
Loaded(t) == tk[t].pc = "pass_load" /\ ~initialized[Cur(t)] /\ initialized'[Cur(t)]

\* task t has just generated seed data for its store
Generated(t) ==
  /\ tk[t].pc # "seed_set"
  /\ tk'[t].pc = "seed_set"
  /\ seedRuns'[Cur(t)] # seedRuns[Cur(t)]

\* C32: a store whose load returns a non-empty list holds exactly the loaded
\* records and is initialized without any generation; seed data is generated
\* for a store only when the backend holds no list for it, or by a task whose
\* load of it failed.
C32_LoadBeforeGeneration ==
  [][\A t \in Tasks :
       /\ Loaded(t) =>
            /\ MapValues(data'[Cur(t)]) = disk[Cur(t)]
            /\ seedRuns' = seedRuns
       /\ Generated(t) =>
            \/ disk[Cur(t)] = <<>>
            \/ tk[t].pc = "pass_load" /\ out'.step = "load_failed"]_vars

\* ------------------------------------------------------------------ C33
PaginationTypes == {"page", "limit", "total", "totalPages"}

\* C33: the page, limit, total and totalPages meta fields of a list response
\* equal those of the pagination of the query underneath, whatever the store
\* holds.
C33_MetaFromPagination ==
  (Ran("list") /\ out.ret # None) =>
    \A ty \in PaginationTypes : out.ret.response.meta[ty] = out.sret.pagination[ty]

\* the same for the queries that match at least one record
C33_MetaOfMatches ==
  (Ran("list") /\ out.ret # None /\ out.sret.pagination.total > 0) =>
    \A ty \in PaginationTypes : out.ret.response.meta[ty] = out.sret.pagination[ty]

\* ------------------------------------------------------------------ C34
\* the record an insert stored carries, in the fields fs, what the caller
\* supplied, and a stamp where the caller supplied nothing
KeepsSupplied(fs) ==
  /\ out.sret.kind = "item"
  /\ MapHas(data[out.col], out.sret.item["id"])
  /\ MapGet(data[out.col], out.sret.item["id"]) = out.sret.item
  /\ \A f \in fs :
       /\ Has(out.sret.item, f)
       /\ Truthy(out.arg, f) => out.sret.item[f] = out.arg[f]

\* C34: insert stores the id, createdAt and updatedAt the caller supplied as
\* given, and assigns or stamps only the ones that are absent.
C34_InsertKeepsSupplied == Ran("create") => KeepsSupplied(StampedFields)

\* the same for id and createdAt alone
C34_InsertKeepsIdAndCreatedAt == Ran("create") => KeepsSupplied({"id", "createdAt"})

\* ------------------------------------------------------------------ C35
\* what operator opr with operand v asks of a record's field f
Compares(item, f, opr, v) ==
  CASE opr = "$eq"  -> Has(item, f) /\ item[f] = v
    [] opr = "$ne"  -> ~Has(item, f) \/ item[f] # v
    [] opr = "$gt"  -> Has(item, f) /\ v < item[f]
    [] opr = "$gte" -> Has(item, f) /\ v <= item[f]
    [] opr = "$lt"  -> Has(item, f) /\ ~(v <= item[f])
    [] opr = "$lte" -> Has(item, f) /\ ~(v < item[f])
    [] opr = "$in"  -> Has(item, f) /\ \E w \in v : w = item[f]
    [] opr = "$nin" -> \A w \in v : Has(item, f) => w # item[f]

\* the record satisfies every operator of every operator object of the filter
SatisfiesAll(item, filter) ==
  \A i \in 1..Len(filter) :
    "ops" \in DOMAIN filter[i].value =>
      \A opr \in DOMAIN filter[i].value.ops :
        Compares(item, filter[i].field, opr, filter[i].value.ops[opr])

\* C35: a list call whose filter has an operator object with several operators
\* returns only records that satisfy all of them.
C35_AllOperators ==
  (Filtered /\ out.sret # TypeError) =>
    \A i \in 1..Len(out.sret.data) : SatisfiesAll(out.sret.data[i], out.arg["filter"])

\* ------------------------------------------------------------------ C36
\* C36: every record of every store is held under the key that is its own id,
\* and no two records of a store have the same id.
C36_KeyedById ==
  \A c \in Collections :
    \A i \in 1..Len(data[c]) :
      /\ Has(data[c][i].v, "id")
      /\ data[c][i].v["id"] = data[c][i].k
      /\ \A j \in 1..Len(data[c]) : i # j => data[c][i].v["id"] # data[c][j].v["id"]

\* an update or a replace whose payload named another id has just rewritten a
\* record of a store that holds several
C36_Witness ==
  /\ out.step = "body"
  /\ out.op \in {"update", "replace"}
  /\ out.sret.kind = "item"
  /\ Has(out.arg["data"], "id")
  /\ out.arg["data"]["id"] # out.arg["id"]
  /\ Len(data[out.col]) >= 2

\* ------------------------------------------------------------------ C37
Inspected(o) == out.step = "inspected" /\ out.op = o

\* count(f) is the total of every outcome of query({filter: f}), or throws
\* as the query does
CountIsTotal ==
  \A q \in queryOutcomes(data[out.col], out.arg) :
    IF q = TypeError THEN out.sret = TypeError
    ELSE out.sret = Number(q.pagination.total)

\* C37: on any store, count(f) is the pagination total of query({filter: f}),
\* count() is the number of records toArray() returns, and exists(id) is true
\* exactly when findById(id) returns a record.
C37_ReadersAgree ==
  /\ (Inspected("count") /\ Has(out.arg, "filter")) => CountIsTotal
  /\ (Inspected("count") /\ ~Has(out.arg, "filter")) =>
       out.sret = Number(Len(toArray(data[out.col]).items))
  /\ Inspected("toArray") =>
       Number(Len(out.sret.items)) = count(data[out.col], EmptyRec)
  /\ Inspected("exists") =>
       (out.sret.b <=> findById(data[out.col], out.arg["id"]) # Null)

\* a count whose filter some records of the store pass and some do not
C37_Witness ==
  /\ Inspected("count")
  /\ Has(out.arg, "filter")
  /\ out.sret # TypeError
  /\ out.sret.n > 0
  /\ out.sret.n < Len(data[out.col])

\* exists answered true for a stored id
C37_WitnessExists == Inspected("exists") /\ out.sret.b

\* ------------------------------------------------------------------ C38
\* every task has made its call and the call has completed, one of them a
\* mutation
MutationsCompleted ==
  /\ \A t \in Tasks : tk[t].pc = "done"
  /\ \E t \in Tasks : tk[t].op \in Mutations \cup {"clear"}

\* C38: in local mode, once every issued call has completed, the list last
\* saved for a collection is the list of the records its store holds.
C38_SavedIsStored ==
  (mode = "local" /\ MutationsCompleted) =>
    \A c \in SeqToSet(registry) : disk[c] = MapValues(data[c])

\* ------------------------------------------------------------------ C39
\* the call of task t returned a value (it did not throw)
ReturnedNormally(t) == tk[t].pc = "done" /\ tk[t].res = None

\* every call made eventually returns
Returns == \A t \in Tasks : (tk[t].pc = "called") ~> (tk[t].pc = "done")

\* the statement for every store operation, clear() included
C39_EveryOperation ==
  /\ Returns
  /\ [](\A t \in Tasks : ReturnedNormally(t) => initialized[tk[t].col])

\* C39: every store operation eventually returns, and when an operation that
\* awaits initialize() (every one but clear()) returns normally, its store is
\* initialized, also when its caller arrived while another pass was in flight.
C39_InitializingOperations ==
  /\ Returns
  /\ [](\A t \in Tasks :
          (ReturnedNormally(t) /\ tk[t].op # "clear") => initialized[tk[t].col])

\* a caller has run its operation on its initialized store while the pass of
\* another caller, in flight when it arrived, is still at its first await
C39_Witness ==
  /\ out.step = "body"
  /\ out.op # "clear"
  /\ initialized[out.col]
  /\ tk[out.task].pc \in {"done", "op_persist"}
  /\ \E u \in Tasks \ {out.task} : tk[u].pc = "pass_start"
====
